---- MODULE Spec2Model ----
(***************************************************************************)
(* A model of apy's note-file parser (_parse_file), its two note           *)
(* assemblers, the collection wrapper's add_notes_from_list and the        *)
(* Markdown <-> HTML converters of src/apy/convert.py and src/apy/cli.py.  *)
(*                                                                         *)
(* Python strings are sequences of one-character strings.  Two characters  *)
(* outside ASCII are written as atoms: "U+00A0" (the non-breaking space)   *)
(* and "U+00C2" (the letter that precedes it in a mis-decoded UTF-8 pair); *)
(* the backtick is the atom "BACKTICK".                                    *)
(***************************************************************************)
EXTENDS Integers, Sequences, FiniteSets, TLC

VARIABLES
    \* ---- _parse_file and the assemblers
    pc,         \* "reading" | "returned" | "aborted" | "crashed" | "assembled"
    nread,      \* number of lines of the file consumed so far
    eof,        \* the last line read had no newline: the file ends here
    line,       \* the loop variable: the line read last (with its newline)
    defaults,   \* dict
    notes,      \* list of dict
    note,       \* dict
    codeblock,  \* bool
    field,      \* None or str
    h1seen,     \* history: level-1 headings read outside a fenced block
    dupseen,    \* history: a level-2 title was read twice in one block
    kind,       \* history: what the author of the file meant the last line to be,
                \* the level-2 titles of the block, the leading properties
    assembled,  \* result of the assembler: [by, notes]
    file,       \* the lines of the file, when the whole file is given
    \* ---- the converters
    cpc,        \* "input" | "stored" | "applied"
    cfg,        \* apy.config.cfg
    text,       \* the text handed to markdown_to_html
    nfrag,      \* number of fragments text was built from
    html,       \* a stored field value (or None)
    origin,     \* "none" | "rendered" | "foreign"
    marked,     \* for a foreign value: whether its author marked its first element
    out,        \* the result of the operation applied last
    \* ---- Anki.add_notes_from_list
    apc,        \* "idle" | "adding" | "review" | "list" | "returned" | "aborted" |
                \* "crashed" | "exited"
    parsed,     \* the list of parsed notes handed to add_notes_from_list
    idx,        \* the loop's position in it
    current,    \* col.models.current()
    col,        \* the notes of the collection
    col0,       \* history: the collection when the call began
    modified,   \* Anki.modified
    result,     \* the list add_notes_from_list builds
    warned,     \* history: positions for which the warning was printed
    closed,     \* col.close() was called by __exit__
    rev         \* the review session: the note shown and what was done last

parsevars == <<pc, nread, eof, line, defaults, notes, note, codeblock, field,
               h1seen, dupseen, kind, assembled, file>>
convvars == <<cpc, cfg, text, nfrag, html, origin, marked, out>>
addvars == <<apc, parsed, idx, current, col, col0, modified, result, warned, closed,
            rev>>
vars == <<parsevars, convvars, addvars>>

----------------------------------------------------------------------------
(* Characters and strings *)

NBSP == "U+00A0"
\* the backtick, written as an atom
BQ == "BACKTICK"
ACIRC == "U+00C2"

Lower == <<"a","b","c","d","e","f","g","h","i","j","k","l","m",
           "n","o","p","q","r","s","t","u","v","w","x","y","z">>
Upper == <<"A","B","C","D","E","F","G","H","I","J","K","L","M",
           "N","O","P","Q","R","S","T","U","V","W","X","Y","Z">>
Digit == <<"0","1","2","3","4","5","6","7","8","9">>

Range(s) == {s[i] : i \in 1..Len(s)}

\* \w of Python's re for the characters of the model
IsWord(c) == c \in Range(Lower) \cup Range(Upper) \cup Range(Digit) \cup {"_", ACIRC}

\* \s of Python's re, and the characters str.strip() removes
IsSpace(c) == c \in {" ", "\t", "\n", "\r", NBSP}

\* str.lower() on one character
LowerChar(c) ==
    IF c \in Range(Upper)
    THEN Lower[CHOOSE i \in 1..Len(Upper) : Upper[i] = c]
    ELSE c

str_lower(s) == [i \in 1..Len(s) |-> LowerChar(s[i])]

\* s[from:]
Drop(s, n) == SubSeq(s, n + 1, Len(s))

StartsWith(s, p) == Len(s) >= Len(p) /\ SubSeq(s, 1, Len(p)) = p

\* length of the longest prefix of s whose characters all satisfy Test
PrefixLen(s, Test(_), i) ==
    LET B == {j \in i..Len(s) : ~Test(s[j])}
    IN  IF i > Len(s) THEN i - 1
        ELSE IF B = {} THEN Len(s)
        ELSE (CHOOSE j \in B : \A k \in B : j <= k) - 1

WordPrefixLen(s) == PrefixLen(s, IsWord, 1)
SpacePrefixLen(s) == PrefixLen(s, IsSpace, 1)
IsHash(c) == c = "#"
NotNewline(c) == c # "\n"

AllSpace(s) == \A i \in 1..Len(s) : IsSpace(s[i])

RECURSIVE SpaceSuffixLen(_, _)
SpaceSuffixLen(s, n) ==
    IF n < Len(s) /\ IsSpace(s[Len(s) - n]) THEN SpaceSuffixLen(s, n + 1) ELSE n

\* str.strip()
str_strip(s) ==
    IF AllSpace(s) THEN <<>>
    ELSE SubSeq(s, SpacePrefixLen(s) + 1, Len(s) - SpaceSuffixLen(s, 0))

\* the least j >= i at which pat occurs in s, or 0
Find(s, pat, i) ==
    LET J == {j \in i..(Len(s) - Len(pat) + 1) : SubSeq(s, j, j + Len(pat) - 1) = pat}
    IN  IF J = {} THEN 0 ELSE CHOOSE j \in J : \A k \in J : j <= k

\* str.replace(old, new): leftmost, non-overlapping occurrences
RECURSIVE str_replace(_, _, _)
str_replace(s, old, new) ==
    IF Len(s) < Len(old) THEN s
    ELSE LET i == Find(s, old, 1)
         IN  IF i = 0 THEN s
             ELSE SubSeq(s, 1, i - 1) \o new
                      \o str_replace(Drop(s, i + Len(old) - 1), old, new)

\* str.split(): the maximal runs of non-space characters, in order
RECURSIVE str_split(_)
str_split(s) ==
    LET t == Drop(s, SpacePrefixLen(s))
        IsNonSpace(c) == ~IsSpace(c)
        n == PrefixLen(t, IsNonSpace, 1)
    IN  IF t = <<>> THEN <<>>
        ELSE <<SubSeq(t, 1, n)>> \o str_split(Drop(t, n))

----------------------------------------------------------------------------
(* Python values: a dict is a function from keys (strings) to values; the  *)
(* fields dict, whose order matters, is a sequence of [k, v] items.        *)

StrV(s) == [t |-> "str", s |-> s, d |-> <<>>, b |-> FALSE]
DictV(d) == [t |-> "dict", s |-> <<>>, d |-> d, b |-> FALSE]
BoolV(b) == [t |-> "bool", s |-> <<>>, d |-> <<>>, b |-> b]

None == [some |-> FALSE, s |-> <<>>]
Some(s) == [some |-> TRUE, s |-> s]
\* truth value of a variable that holds None or a str
Truthy(f) == f.some /\ f.s # <<>>

EmptyDict == [k \in {} |-> StrV(<<>>)]
Keys(d) == DOMAIN d

\* d[k] = v
DictSet(d, k, v) == [x \in DOMAIN d \cup {k} |-> IF x = k THEN v ELSE d[x]]
\* d.update(e)
DictUpdate(d, e) == [x \in DOMAIN d \cup DOMAIN e |-> IF x \in DOMAIN e THEN e[x] ELSE d[x]]
\* d.pop(k)
DictPop(d, k) == [x \in DOMAIN d \ {k} |-> d[x]]

\* the fields dict: insertion ordered
ItemKeys(items) == {items[i].k : i \in 1..Len(items)}
ItemGet(items, k) == items[CHOOSE i \in 1..Len(items) : items[i].k = k].v
ItemSet(items, k, v) ==
    IF k \in ItemKeys(items)
    THEN [i \in 1..Len(items) |-> IF items[i].k = k THEN [k |-> k, v |-> v] ELSE items[i]]
    ELSE Append(items, [k |-> k, v |-> v])

k_title == <<"t","i","t","l","e">>
k_fields == <<"f","i","e","l","d","s">>
k_tags == <<"t","a","g","s">>
k_tag == <<"t","a","g">>
k_model == <<"m","o","d","e","l">>
k_markdown == <<"m","a","r","k","d","o","w","n">>
k_md == <<"m","d">>

----------------------------------------------------------------------------
(* _parse_file: the regular expressions *)

Fence == <<BQ, BQ, BQ>>

\* a closing fence that, like the opening one, admits a language tag
MatchCloseFence_WithTag(l) ==
    StartsWith(l, Fence) /\ AllSpace(Drop(Drop(l, 3), WordPrefixLen(Drop(l, 3))))

\* re.match of three backticks, \s*, $ (line 104)
MatchCloseFence(l) == StartsWith(l, Fence) /\ AllSpace(Drop(l, 3))

\* re.match of three backticks, \w*, \s*, $ (line 109)
MatchOpenFence(l) ==
    /\ StartsWith(l, Fence)
    /\ AllSpace(Drop(Drop(l, 3), WordPrefixLen(Drop(l, 3))))

\* the group 'any characters': up to the end of the line
DotStar(s) == SubSeq(s, 1, PrefixLen(s, NotNewline, 1))

\* re.match of a word, a colon, a space and any characters (line 117)
MatchProperty(l) ==
    LET w == WordPrefixLen(l)
    IN  IF w >= 1 /\ Len(l) >= w + 2 /\ l[w + 1] = ":" /\ l[w + 2] = " "
        THEN [ok |-> TRUE, k |-> SubSeq(l, 1, w), v |-> DotStar(Drop(l, w + 2))]
        ELSE [ok |-> FALSE, k |-> <<>>, v |-> <<>>]

\* re.match of one or more '#', optional whitespace and any characters (line 126)
MatchHeading(l) ==
    LET n == PrefixLen(l, IsHash, 1)
        rest == Drop(l, n)
    IN  IF n >= 1
        THEN [ok |-> TRUE, level |-> n, title |-> DotStar(Drop(rest, SpacePrefixLen(rest)))]
        ELSE [ok |-> FALSE, level |-> 0, title |-> <<>>]

----------------------------------------------------------------------------
(* _parse_file: the loop body, on the function's local variables           *)
(* [defaults, notes, note, codeblock, field]; st is "ok", "abort" (the     *)
(* click.Abort of the parser) or "crash" (any other exception).            *)

Locals == [defaults |-> defaults, notes |-> notes, note |-> note,
           codeblock |-> codeblock, field |-> field, st |-> "ok"]

\* whether note['fields'][...] can be evaluated: the key is there and holds a dict
HasFieldsDict(n) == k_fields \in Keys(n) /\ n[k_fields].t = "dict"

\* note['fields'][f] = v
SetField(n, f, v) == DictSet(n, k_fields, DictV(ItemSet(n[k_fields].d, f, v)))
\* note['fields'][f]
GetField(n, f) == ItemGet(n[k_fields].d, f)

\* note['fields'][field] += line
AppendToField(L, l) ==
    IF HasFieldsDict(L.note) /\ L.field.s \in ItemKeys(L.note[k_fields].d)
    THEN [L EXCEPT !.note = SetField(L.note, L.field.s, GetField(L.note, L.field.s) \o l)]
    ELSE [L EXCEPT !.st = "crash"]

\* note['fields'][field] = note['fields'][field].strip()
StripField(L) ==
    IF HasFieldsDict(L.note) /\ L.field.s \in ItemKeys(L.note[k_fields].d)
    THEN [L EXCEPT !.note = SetField(L.note, L.field.s, str_strip(GetField(L.note, L.field.s)))]
    ELSE [L EXCEPT !.st = "crash"]

\* lines 101-107: inside a fenced block
InCodeblock(L, l) ==
    LET L1 == IF Truthy(L.field) THEN AppendToField(L, l) ELSE L
    IN  IF L1.st = "ok" /\ MatchCloseFence(l) THEN [L1 EXCEPT !.codeblock = FALSE] ELSE L1

\* lines 109-114: an opening fence
OpenCodeblock(L, l) ==
    LET L1 == [L EXCEPT !.codeblock = TRUE]
    IN  IF Truthy(L.field) THEN AppendToField(L1, l) ELSE L1

\* lines 119-124: a property line
SetProperty(L, m) ==
    LET k0 == str_lower(m.k)
        k == IF k0 = k_tag THEN k_tags ELSE k0
    IN  [L EXCEPT !.note = DictSet(L.note, k, StrV(str_strip(m.v)))]

\* a level-1 heading that forgets the properties read before it
LevelOne_NoFold(L, title) ==
    LET L1 == IF Truthy(L.field) THEN StripField(L) ELSE L
        L2 == IF Keys(L.note) # {} /\ Truthy(L.field) /\ L1.st = "ok"
              THEN [L1 EXCEPT !.notes = Append(L1.notes, L1.note)]
              ELSE L1
    IN  IF L2.st # "ok" THEN L2
        ELSE [L2 EXCEPT !.note = DictSet(DictSet(EmptyDict, k_title, StrV(title)),
                                         k_fields, DictV(<<>>)),
                        !.field = None]

\* lines 134-144: a level-1 heading
LevelOne(L, title) ==
    LET L1 == IF Truthy(L.field) THEN StripField(L) ELSE L
        L2 == IF Keys(L.note) = {} THEN L
              ELSE IF Truthy(L.field)
                   THEN IF L1.st = "ok"
                        THEN [L1 EXCEPT !.notes = Append(L1.notes, L1.note)]
                        ELSE L1
                   ELSE [L EXCEPT !.defaults = DictUpdate(L.defaults, L.note)]
    IN  IF L2.st # "ok" THEN L2
        ELSE [L2 EXCEPT !.note = DictSet(DictSet(EmptyDict, k_title, StrV(title)),
                                         k_fields, DictV(<<>>)),
                        !.field = None]

\* line 150: title in note
TitleInNote(n, title) == title \in Keys(n)

\* lines 146-155: a level-2 heading
LevelTwo(L, title) ==
    LET L1 == IF Truthy(L.field) THEN StripField(L) ELSE L
    IN  IF L1.st # "ok" THEN L1
        ELSE IF TitleInNote(L1.note, title) THEN [L1 EXCEPT !.st = "abort"]
        ELSE IF ~HasFieldsDict(L1.note) THEN [L1 EXCEPT !.st = "crash"]
        ELSE [L1 EXCEPT !.field = Some(title),
                        !.note = SetField(L1.note, title, <<>>)]

\* headings and content, a heading of level 3 or more taken as content
HeadingOrContent_DeepIsText(L, l) ==
    LET m == MatchHeading(l)
    IN  IF ~m.ok \/ m.level >= 3 THEN (IF Truthy(L.field) THEN AppendToField(L, l) ELSE L)
        ELSE IF m.level = 1 THEN LevelOne(L, m.title)
        ELSE LevelTwo(L, m.title)

\* lines 126-155: headings and content
HeadingOrContent(L, l) ==
    LET m == MatchHeading(l)
    IN  IF ~m.ok THEN (IF Truthy(L.field) THEN AppendToField(L, l) ELSE L)
        ELSE IF m.level = 1 THEN LevelOne(L, m.title)
        ELSE IF m.level = 2 THEN LevelTwo(L, m.title)
        ELSE L

\* lines 100-155: one iteration of the loop
parse_line(L, l) ==
    IF L.codeblock THEN InCodeblock(L, l)
    ELSE IF MatchOpenFence(l) THEN OpenCodeblock(L, l)
    ELSE IF ~Truthy(L.field) /\ MatchProperty(l).ok THEN SetProperty(L, MatchProperty(l))
    ELSE HeadingOrContent(L, l)

\* the end of the file without trimming the open field
parse_end_NoStrip(L) ==
    IF Keys(L.note) # {} /\ Truthy(L.field)
    THEN IF HasFieldsDict(L.note) /\ L.field.s \in ItemKeys(L.note[k_fields].d)
         THEN [L EXCEPT !.notes = Append(L.notes, L.note)]
         ELSE [L EXCEPT !.st = "crash"]
    ELSE L

\* lines 157-161: after the loop
parse_end(L) ==
    IF Keys(L.note) # {} /\ Truthy(L.field)
    THEN LET L1 == StripField(L)
         IN  IF L1.st = "ok" THEN [L1 EXCEPT !.notes = Append(L1.notes, L1.note)] ELSE L1
    ELSE L

----------------------------------------------------------------------------
(* The assemblers *)

s_true == <<"t","r","u","e">>
s_yes == <<"y","e","s">>
s_Basic == <<"B","a","s","i","c">>
s_marked == <<"m","a","r","k","e","d">>

\* a test that takes the word in any case
IsTrueWord_AnyCase(v) == v.t = "str" /\ str_lower(v.s) \in {s_true, s_yes}

\* x in ('true', 'yes')
IsTrueWord(v) == v.t = "str" /\ v.s \in {s_true, s_yes}

\* d['tags'] = d['tags'].replace(',', '')
RemoveComma(d) == DictSet(d, k_tags, StrV(str_replace(d[k_tags].s, <<",">>, <<>>)))

\* convert.py lines 57-61 and 77-81: the markdown flag of a dict
ParseMarkdownFlag(d) ==
    IF k_markdown \in Keys(d) THEN DictSet(d, k_markdown, BoolV(IsTrueWord(d[k_markdown])))
    ELSE IF k_md \in Keys(d)
         THEN DictPop(DictSet(d, k_markdown, BoolV(IsTrueWord(d[k_md]))), k_md)
         ELSE d

\* convert.py lines 64-65 and 84-85
RemoveCommaIfTags(d) == IF k_tags \in Keys(d) THEN RemoveComma(d) ELSE d

\* convert.py lines 68-72
ExplicitDefaults ==
    DictSet(DictSet(DictSet(EmptyDict, k_model, StrV(s_Basic)),
                    k_markdown, BoolV(TRUE)), k_tags, StrV(<<>>))

\* convert.py lines 54-91
markdown_file_to_notes(dflt, ns) ==
    LET d == DictUpdate(ExplicitDefaults, RemoveCommaIfTags(ParseMarkdownFlag(dflt)))
    IN  [i \in 1..Len(ns) |->
            \* note.update of the keys of defaults that note lacks
            DictUpdate(d, RemoveCommaIfTags(ParseMarkdownFlag(ns[i])))]

\* cli.py lines 540-546: the default markdown flag
DefMarkdown(dflt) ==
    IF k_markdown \in Keys(dflt) THEN IsTrueWord(dflt[k_markdown])
    ELSE IF k_md \in Keys(dflt) THEN IsTrueWord(dflt[k_md])
    ELSE TRUE

\* dict.get(k, default)
DictGet(d, k, default) == IF k \in Keys(d) THEN d[k] ELSE default

\* cli.py lines 553-567: one note
AssembleNote(d, defMarkdown, n) ==
    LET n1 == IF k_model \notin Keys(n)
              THEN DictSet(n, k_model, DictGet(d, k_model, StrV(s_Basic)))
              ELSE n
        n2 == IF k_tags \in Keys(n1) THEN RemoveComma(n1)
              ELSE DictSet(n1, k_tags, DictGet(d, k_tags, StrV(s_marked)))
    IN  IF k_markdown \in Keys(n2)
        THEN DictSet(n2, k_markdown, BoolV(IsTrueWord(n2[k_markdown])))
        ELSE IF k_md \in Keys(n2)
             THEN DictPop(DictSet(n2, k_markdown, BoolV(IsTrueWord(n2[k_md]))), k_md)
             ELSE DictSet(n2, k_markdown, BoolV(defMarkdown))

\* cli.py lines 537-569
parse_notes_from_markdown(dflt, ns) ==
    LET d == RemoveCommaIfTags(IF k_markdown \in Keys(dflt) THEN DictPop(dflt, k_markdown)
                               ELSE IF k_md \in Keys(dflt) THEN DictPop(dflt, k_md)
                               ELSE dflt)
    IN  [i \in 1..Len(ns) |-> AssembleNote(d, DefMarkdown(dflt), ns[i])]

\* cli.py lines 249 and 263: the tags _add_note attaches, for the tags
\* argument of add_notes_from_list and the note's tags string
AttachedTags(tagsArg, noteTags) == str_split(str_strip(tagsArg \o <<" ">> \o noteTags))

----------------------------------------------------------------------------
(* The files: sequences of at most MaxLines lines drawn from Lines.  Each  *)
(* line is written down with what its author means it to be: a heading    *)
(* with its title, a property with its key and value, text or a fence.     *)

MaxLines == 5

Lines == {
    [s |-> <<"#"," ","A">>, kind |-> "h1", title |-> <<"A">>, key |-> <<>>, value |-> <<>>],
    [s |-> <<"#","#"," ","F">>, kind |-> "h2", title |-> <<"F">>, key |-> <<>>, value |-> <<>>],
    [s |-> <<"#","#"," ","G">>, kind |-> "h2", title |-> <<"G">>, key |-> <<>>, value |-> <<>>],
    [s |-> <<"#","#">>, kind |-> "h2", title |-> <<>>, key |-> <<>>, value |-> <<>>],
    [s |-> <<"#","#"," ","t","i","t","l","e">>, kind |-> "h2", title |-> <<"t","i","t","l","e">>,
     key |-> <<>>, value |-> <<>>],
    [s |-> <<"#","#","#"," ","h">>, kind |-> "h3", title |-> <<"h">>, key |-> <<>>, value |-> <<>>],
    [s |-> <<"t","a","g","s",":"," ","x",",","y">>, kind |-> "prop", title |-> <<>>,
     key |-> <<"t","a","g","s">>, value |-> <<"x",",","y">>],
    [s |-> <<"m","o","d","e","l",":"," ","M">>, kind |-> "prop", title |-> <<>>,
     key |-> <<"m","o","d","e","l">>, value |-> <<"M">>],
    [s |-> <<"q"," ">>, kind |-> "text", title |-> <<>>, key |-> <<>>, value |-> <<>>],
    [s |-> Fence, kind |-> "fence", title |-> <<>>, key |-> <<>>, value |-> <<>>],
    [s |-> Fence \o <<"p","y">>, kind |-> "fencelang", title |-> <<>>,
     key |-> <<>>, value |-> <<>>] }

NoKind == [kind |-> "none", title |-> <<>>, infence |-> FALSE, titles |-> {},
           leading |-> [k \in {} |-> <<>>]]

ParseInit ==
    /\ pc = "reading"
    /\ nread = 0
    /\ eof = FALSE
    /\ line = <<>>
    /\ defaults = EmptyDict
    /\ notes = <<>>
    /\ note = EmptyDict
    /\ codeblock = FALSE
    /\ field = None
    /\ h1seen = 0
    /\ dupseen = FALSE
    /\ kind = NoKind
    /\ assembled = [by |-> "none", notes |-> <<>>]
    /\ file = <<>>

ParseIdle ==
    /\ pc = "idle"
    /\ nread = 0
    /\ eof = FALSE
    /\ line = <<>>
    /\ defaults = EmptyDict
    /\ notes = <<>>
    /\ note = EmptyDict
    /\ codeblock = FALSE
    /\ field = None
    /\ h1seen = 0
    /\ dupseen = FALSE
    /\ kind = NoKind
    /\ assembled = [by |-> "none", notes |-> <<>>]
    /\ file = <<>>

PcAfter(st) == IF st = "ok" THEN "reading" ELSE IF st = "abort" THEN "aborted" ELSE "crashed"

\* one iteration of "for line in open(filename)": the next line of the file
\* is l, with a newline unless it is the file's last line
ReadLine(l, nl) ==
    /\ pc = "reading"
    /\ ~eof
    /\ nread < MaxLines
    /\ LET ln == l.s \o (IF nl THEN <<"\n">> ELSE <<>>)
           L == parse_line(Locals, ln)
       IN  /\ line' = ln
           /\ eof' = ~nl
           /\ nread' = nread + 1
           /\ pc' = PcAfter(L.st)
           /\ defaults' = L.defaults
           /\ notes' = L.notes
           /\ note' = L.note
           /\ codeblock' = L.codeblock
           /\ field' = L.field
           /\ h1seen' = IF ~codeblock /\ l.kind = "h1" THEN h1seen + 1 ELSE h1seen
           /\ dupseen' = (dupseen \/ (~codeblock /\ l.kind = "h2" /\ l.title \in kind.titles))
           /\ kind' = [kind |-> l.kind, title |-> l.title, infence |-> codeblock,
                       titles |-> IF codeblock THEN kind.titles
                                  ELSE IF l.kind = "h1" THEN {}
                                  ELSE IF l.kind = "h2" THEN kind.titles \cup {l.title}
                                  ELSE kind.titles,
                       leading |-> IF ~codeblock /\ l.kind = "prop" /\ h1seen = 0
                                   THEN [k \in DOMAIN kind.leading \cup {l.key} |->
                                           IF k = l.key THEN l.value ELSE kind.leading[k]]
                                   ELSE kind.leading]
    /\ UNCHANGED <<assembled, file, convvars, addvars>>

\* the file is exhausted: lines 157-161
EndOfFile ==
    /\ pc = "reading"
    /\ LET L == parse_end(Locals)
       IN  /\ pc' = IF L.st = "ok" THEN "returned" ELSE "crashed"
           /\ notes' = L.notes
           /\ note' = L.note
    /\ UNCHANGED <<nread, eof, line, defaults, codeblock, field, h1seen, dupseen, kind,
                   assembled, file, convvars, addvars>>

\* the caller of _parse_file: one of the two assemblers
Assemble(by) ==
    /\ pc = "returned"
    /\ pc' = "assembled"
    /\ assembled' = [by |-> by,
                     notes |-> IF by = "convert"
                               THEN markdown_file_to_notes(defaults, notes)
                               ELSE parse_notes_from_markdown(defaults, notes)]
    /\ UNCHANGED <<nread, eof, line, defaults, notes, note, codeblock, field,
                   h1seen, dupseen, kind, file, convvars, addvars>>

\* lines for files that set the markdown flag, in the defaults and in notes
FlagLines == {
    [s |-> <<"#"," ","A">>,               kind |-> "h1",   title |-> <<"A">>, key |-> <<>>, value |-> <<>>],
    [s |-> <<"#","#"," ","F">>,              kind |-> "h2",   title |-> <<"F">>, key |-> <<>>, value |-> <<>>],
    [s |-> <<"m","a","r","k","d","o","w","n",":"," ","t","r","u","e">>,    kind |-> "prop", title |-> <<>>,
     key |-> <<"m","a","r","k","d","o","w","n">>, value |-> <<"t","r","u","e">>],
    [s |-> <<"m","a","r","k","d","o","w","n",":"," ","T","r","u","e">>,    kind |-> "prop", title |-> <<>>,
     key |-> <<"m","a","r","k","d","o","w","n">>, value |-> <<"T","r","u","e">>],
    [s |-> <<"m","a","r","k","d","o","w","n",":"," ","f","a","l","s","e"," ","(","d","e","f","a","u","l","t"," ","i","s"," ","t","r","u","e",")">>, kind |-> "prop", title |-> <<>>,
     key |-> <<"m","a","r","k","d","o","w","n">>, value |-> <<"f","a","l","s","e"," ","(","d","e","f","a","u","l","t"," ","i","s"," ","t","r","u","e",")">>],
    [s |-> <<"m","d",":"," ","y","e","s">>,           kind |-> "prop", title |-> <<>>,
     key |-> <<"m","d">>, value |-> <<"y","e","s">>],
    [s |-> <<"M","D",":"," ","f","a","l","s","e">>,         kind |-> "prop", title |-> <<>>,
     key |-> <<"m","d">>, value |-> <<"f","a","l","s","e">>] }

----------------------------------------------------------------------------
(* Whole files: the example of markdown_file_to_notes' docstring, cut      *)
(* after its first, second and third note, with and without a newline at   *)
(* the end of its last line.                                               *)

\* convert.py lines 22-30: the defaults and Note 1
ExampleNote1 == <<
    <<"m","o","d","e","l",":"," ","B","a","s","i","c","\n">>,
    <<"t","a","g","s",":"," ","m","a","r","k","e","d","\n">>,
    <<"\n">>,
    <<"#"," ","N","o","t","e"," ","1","\n">>,
    <<"#","#"," ","F","r","o","n","t","\n">>,
    <<"Q","u","e","s","t","i","o","n","?","\n">>,
    <<"\n">>,
    <<"#","#"," ","B","a","c","k","\n">>,
    <<"A","n","s","w","e","r",".","\n">> >>

\* convert.py lines 31-39: Note 2
ExampleNote2 == <<
    <<"\n">>,
    <<"#"," ","N","o","t","e"," ","2","\n">>,
    <<"t","a","g",":"," ","s","i","l","l","y","-","t","a","g","\n">>,
    <<"\n">>,
    <<"#","#"," ","F","r","o","n","t","\n">>,
    <<"Q","u","e","s","t","i","o","n","?","\n">>,
    <<"\n">>,
    <<"#","#"," ","B","a","c","k","\n">>,
    <<"A","n","s","w","e","r","\n">> >>

\* convert.py lines 40-52: Note 3
ExampleNote3 == <<
    <<"\n">>,
    <<"#"," ","N","o","t","e"," ","3","\n">>,
    <<"m","o","d","e","l",":"," ","N","e","w","M","o","d","e","l","\n">>,
    <<"m","a","r","k","d","o","w","n",":"," ","f","a","l","s","e"," ","(","d","e","f","a","u","l","t"," ","i","s"," ","t","r","u","e",")","\n">>,
    <<"\n">>,
    <<"#","#"," ","N","e","w","F","r","o","n","t","\n">>,
    <<"F","i","e","l","d","O","n","e","\n">>,
    <<"\n">>,
    <<"#","#"," ","N","e","w","B","a","c","k","\n">>,
    <<"F","i","e","l","d","T","w","o","\n">>,
    <<"\n">>,
    <<"#","#"," ","F","i","e","l","d","T","h","r","e","e","\n">>,
    <<"F","i","e","l","d","T","h","r","e","e","\n">> >>

\* the file without the newline that ends its last line
WithoutFinalNewline(f) ==
    [f EXCEPT ![Len(f)] = SubSeq(f[Len(f)], 1, Len(f[Len(f)]) - 1)]

ExampleFiles ==
    LET whole == {ExampleNote1, ExampleNote1 \o ExampleNote2,
                  ExampleNote1 \o ExampleNote2 \o ExampleNote3}
    IN  whole \cup {WithoutFinalNewline(f) : f \in whole}

FileInit ==
    /\ pc = "reading"
    /\ nread = 0
    /\ eof = FALSE
    /\ line = <<>>
    /\ defaults = EmptyDict
    /\ notes = <<>>
    /\ note = EmptyDict
    /\ codeblock = FALSE
    /\ field = None
    /\ h1seen = 0
    /\ dupseen = FALSE
    /\ kind = NoKind
    /\ assembled = [by |-> "none", notes |-> <<>>]
    /\ file \in ExampleFiles

\* one iteration of "for line in open(filename)" over a given file; the
\* histories h1seen, dupseen and kind are kept for labelled lines only
ReadFile ==
    /\ pc = "reading"
    /\ nread < Len(file)
    /\ LET L == parse_line(Locals, file[nread + 1])
       IN  /\ line' = file[nread + 1]
           /\ eof' = (nread + 1 = Len(file))
           /\ nread' = nread + 1
           /\ pc' = PcAfter(L.st)
           /\ defaults' = L.defaults
           /\ notes' = L.notes
           /\ note' = L.note
           /\ codeblock' = L.codeblock
           /\ field' = L.field
    /\ UNCHANGED <<h1seen, dupseen, kind, assembled, file, convvars, addvars>>

\* the given file is exhausted: lines 157-161
EndFile ==
    /\ file # <<>>
    /\ nread = Len(file)
    /\ EndOfFile

----------------------------------------------------------------------------
(* str.encode('utf-8'), bytes.decode('utf-8'), base64.b64encode and        *)
(* base64.b64decode, for the characters of the model                       *)

\* the printable ASCII characters, from code 32 to code 126
Ascii == <<" ","!","\"","#","$","%","&","APOSTROPHE","(",")","*","+",",","-",".","/",
           "0","1","2","3","4","5","6","7","8","9",":",";","<","=",">","?",
           "@","A","B","C","D","E","F","G","H","I","J","K","L","M","N","O",
           "P","Q","R","S","T","U","V","W","X","Y","Z","[","\\","]","^","_",
           BQ,"a","b","c","d","e","f","g","h","i","j","k","l","m","n","o",
           "p","q","r","s","t","u","v","w","x","y","z","{","|","}","~">>

\* the other characters of the model, each with its code point
Others == << <<"\t", 9>>, <<"\n", 10>>, <<"\r", 13>>, <<NBSP, 160>>, <<ACIRC, 194>>,
             <<"U+00C5", 197>>, <<"U+00C6", 198>>, <<"U+00D8", 216>>,
             <<"U+00E5", 229>>, <<"U+00E6", 230>>, <<"U+00F8", 248>> >>

\* ord(c)
Ord(c) ==
    IF c \in Range(Ascii)
    THEN 31 + (CHOOSE i \in 1..Len(Ascii) : Ascii[i] = c)
    ELSE Others[CHOOSE i \in 1..Len(Others) : Others[i][1] = c][2]

IsCodePoint(n) == n \in 32..126 \/ \E i \in 1..Len(Others) : Others[i][2] = n

\* chr(n)
Chr(n) ==
    IF n \in 32..126 THEN Ascii[n - 31]
    ELSE Others[CHOOSE i \in 1..Len(Others) : Others[i][2] = n][1]

\* str.encode('utf-8'): one byte below 128, two bytes below 2048; the
\* characters are encoded one by one, so a text is encoded by halves
RECURSIVE utf8_encode(_)
utf8_encode(s) ==
    IF s = <<>> THEN <<>>
    ELSE IF Len(s) = 1
         THEN LET n == Ord(s[1])
              IN  IF n < 128 THEN <<n>> ELSE <<192 + (n \div 64), 128 + (n % 64)>>
    ELSE utf8_encode(SubSeq(s, 1, Len(s) \div 2)) \o utf8_encode(Drop(s, Len(s) \div 2))

\* bytes.decode('utf-8'); [ok |-> FALSE] stands for UnicodeDecodeError.  More
\* than two bytes are decoded by halves, cut in front of a byte that is not a
\* continuation byte: a character of this range takes one or two bytes, so
\* the bytes are valid exactly when both halves are.
RECURSIVE utf8_decode(_)
utf8_decode(b) ==
    IF Len(b) > 2
    THEN LET m == Len(b) \div 2
             k == IF b[m + 1] \in 128..191 THEN m + 1 ELSE m
             l == utf8_decode(SubSeq(b, 1, k))
             r == utf8_decode(Drop(b, k))
         IN  IF l.ok /\ r.ok THEN [ok |-> TRUE, s |-> l.s \o r.s]
             ELSE [ok |-> FALSE, s |-> <<>>]
    ELSE IF b = <<>> THEN [ok |-> TRUE, s |-> <<>>]
    ELSE IF b[1] < 128
         THEN LET r == utf8_decode(Tail(b))
              IN  IF IsCodePoint(b[1]) /\ r.ok
                  THEN [ok |-> TRUE, s |-> <<Chr(b[1])>> \o r.s]
                  ELSE [ok |-> FALSE, s |-> <<>>]
         ELSE IF b[1] \in 194..223 /\ Len(b) >= 2 /\ b[2] \in 128..191
              THEN LET n == (b[1] - 192) * 64 + (b[2] - 128)
                       r == utf8_decode(Drop(b, 2))
                   IN  IF IsCodePoint(n) /\ r.ok
                       THEN [ok |-> TRUE, s |-> <<Chr(n)>> \o r.s]
                       ELSE [ok |-> FALSE, s |-> <<>>]
              ELSE [ok |-> FALSE, s |-> <<>>]

B64 == Upper \o Lower \o Digit \o <<"+", "/">>

\* base64.b64encode(bytes).decode(): three bytes make four characters, so
\* more than three bytes are encoded by halves cut at a multiple of three
RECURSIVE b64encode(_)
b64encode(b) ==
    IF Len(b) > 3
    THEN LET k == 3 * ((((Len(b) - 1) \div 3) + 1) \div 2)
         IN  b64encode(SubSeq(b, 1, k)) \o b64encode(Drop(b, k))
    ELSE IF b = <<>> THEN <<>>
    ELSE IF Len(b) = 1
         THEN <<B64[(b[1] \div 4) + 1], B64[(b[1] % 4) * 16 + 1], "=", "=">>
    ELSE IF Len(b) = 2
         THEN <<B64[(b[1] \div 4) + 1],
                B64[(b[1] % 4) * 16 + (b[2] \div 16) + 1],
                B64[(b[2] % 16) * 4 + 1], "=">>
    ELSE <<B64[(b[1] \div 4) + 1],
           B64[(b[1] % 4) * 16 + (b[2] \div 16) + 1],
           B64[(b[2] % 16) * 4 + (b[3] \div 64) + 1],
           B64[(b[3] % 64) + 1]>> \o b64encode(Drop(b, 3))

B64Value(c) == (CHOOSE i \in 1..64 : B64[i] = c) - 1

\* a well-formed base64 text: groups of four, padding only at the end
B64WellFormed(s) ==
    /\ Len(s) % 4 = 0
    /\ \A i \in 1..Len(s) :
          \/ s[i] \in Range(B64)
          \/ /\ s[i] = "="
             /\ i >= Len(s) - 1
             /\ (i = Len(s) - 1 => s[Len(s)] = "=")

\* base64.b64decode of a well-formed text: more than four characters are
\* decoded by halves cut at a multiple of four
RECURSIVE b64decode(_)
b64decode(s) ==
    IF Len(s) > 4
    THEN LET k == 4 * ((Len(s) \div 4) \div 2)
         IN  b64decode(SubSeq(s, 1, k)) \o b64decode(Drop(s, k))
    ELSE IF s = <<>> THEN <<>>
    ELSE LET v1 == B64Value(s[1])
             v2 == B64Value(s[2])
         IN  IF s[3] = "=" THEN <<v1 * 4 + (v2 \div 16)>>
             ELSE LET v3 == B64Value(s[3])
                  IN  IF s[4] = "="
                      THEN <<v1 * 4 + (v2 \div 16), (v2 % 16) * 16 + (v3 \div 4)>>
                      ELSE <<v1 * 4 + (v2 \div 16), (v2 % 16) * 16 + (v3 \div 4),
                             (v3 % 4) * 64 + B64Value(s[4])>> \o b64decode(Drop(s, 4))

----------------------------------------------------------------------------
(* BeautifulSoup(html, 'html.parser') for what the converters use of it:   *)
(* the first Tag among the children of the tree, its attributes, and the   *)
(* text of the tree after an attribute of that tag has been set.  The      *)
(* first start tag of a document is always a child of the root.            *)

IsLetter(c) == c \in Range(Lower) \cup Range(Upper)
IsTagNameChar(c) == IsLetter(c) \/ c \in Range(Digit) \/ c = "-"
IsAttrNameChar(c) == ~IsSpace(c) /\ c \notin {"=", "/", ">"}

NoTag == [found |-> FALSE, start |-> 0, stop |-> 0]

\* the first start tag at or after position i: comments, declarations and
\* end tags are passed over, a '<' that opens no tag is text
RECURSIVE FirstTagFrom(_, _)
FirstTagFrom(h, i) ==
    IF i > Len(h) THEN NoTag
    ELSE IF h[i] # "<"
         THEN LET j == Find(h, <<"<">>, i)
              IN  IF j = 0 THEN NoTag ELSE FirstTagFrom(h, j)
    ELSE IF i = Len(h) THEN NoTag
    ELSE IF StartsWith(Drop(h, i - 1), <<"<","!","-","-">>)
         THEN LET j == Find(h, <<"-","-",">">>, i + 4)
              IN  IF j = 0 THEN NoTag ELSE FirstTagFrom(h, j + 3)
    ELSE IF IsLetter(h[i + 1])
         THEN LET j == Find(h, <<">">>, i + 1)
              IN  IF j = 0 THEN NoTag ELSE [found |-> TRUE, start |-> i, stop |-> j]
    ELSE IF h[i + 1] \in {"/", "!", "?"}
         THEN LET j == Find(h, <<">">>, i + 1)
              IN  IF j = 0 THEN NoTag ELSE FirstTagFrom(h, j + 1)
    ELSE FirstTagFrom(h, i + 1)

\* _get_first_tag(BeautifulSoup(html, 'html.parser'))
get_first_tag(h) == FirstTagFrom(h, 1)

\* the attributes written inside a start tag, after its name
RECURSIVE ParseAttrs(_)
ParseAttrs(s) ==
    LET t == Drop(s, SpacePrefixLen(s))
        n == PrefixLen(t, IsAttrNameChar, 1)
        r == Drop(t, n)
        q == Find(r, <<"\"">>, 3)
    IN  IF t = <<>> THEN <<>>
        ELSE IF n = 0 THEN ParseAttrs(Tail(t))
        ELSE IF StartsWith(r, <<"=","\"">>)
             THEN IF q = 0
                  THEN <<[k |-> str_lower(SubSeq(t, 1, n)), v |-> Drop(r, 2)]>>
                  ELSE <<[k |-> str_lower(SubSeq(t, 1, n)), v |-> SubSeq(r, 3, q - 1)]>>
                           \o ParseAttrs(Drop(r, q))
        ELSE <<[k |-> str_lower(SubSeq(t, 1, n)), v |-> <<>>]>> \o ParseAttrs(r)

\* what stands between '<' and '>' of tag tg of document h
TagInner(h, tg) == SubSeq(h, tg.start + 1, tg.stop - 1)
TagName(h, tg) ==
    str_lower(SubSeq(TagInner(h, tg), 1, PrefixLen(TagInner(h, tg), IsTagNameChar, 1)))
\* tag.attrs
TagAttrs(h, tg) ==
    ParseAttrs(Drop(TagInner(h, tg), PrefixLen(TagInner(h, tg), IsTagNameChar, 1)))

RECURSIVE WriteAttrs(_)
WriteAttrs(attrs) ==
    IF attrs = <<>> THEN <<>>
    ELSE <<" ">> \o attrs[1].k \o <<"=","\"">> \o attrs[1].v \o <<"\"">> \o WriteAttrs(Tail(attrs))

\* str(tree): the entity of the non-breaking space is written as the character
Serialize(h) == str_replace(h, <<"&","n","b","s","p",";">>, <<NBSP>>)

\* tag[k] = v on the first tag of h, then str(tree)
SetAttrOfFirstTag(h, k, v) ==
    LET tg == get_first_tag(h)
    IN  Serialize(SubSeq(h, 1, tg.start - 1))
            \o <<"<">> \o TagName(h, tg) \o WriteAttrs(ItemSet(TagAttrs(h, tg), k, v)) \o <<">">>
            \o Serialize(Drop(h, tg.stop))

----------------------------------------------------------------------------
(* markdown.markdown(text, extensions=..., output_format="html5"): the     *)
(* Markdown engine, for the texts of the model.  Blank lines separate      *)
(* blocks.  A block that begins with an HTML comment or with a <div>       *)
(* element is raw HTML and is passed through, what follows it on the line  *)
(* being a block of its own; any other block is a paragraph, in which a    *)
(* backslash before a punctuation character of Markdown is removed.  The   *)
(* rendered blocks are joined by newlines; a blank text renders to ''.     *)

Escapable == {"\\", BQ, "*", "_", "{", "}", "[", "]", "(", ")", ">", "#", "+", "-", ".", "!"}

RECURSIVE Inline(_)
Inline(s) ==
    IF s = <<>> THEN <<>>
    ELSE LET at == Find(s, <<"\\">>, 1)
         IN  IF at = 0 THEN s
             ELSE IF at < Len(s) /\ s[at + 1] \in Escapable
                  THEN SubSeq(s, 1, at - 1) \o <<s[at + 1]>> \o Inline(Drop(s, at + 1))
             ELSE SubSeq(s, 1, at) \o Inline(Drop(s, at))

\* the length of the raw HTML a block begins with, or 0
RawHtmlLen(b) ==
    IF StartsWith(b, <<"<","!","-","-">>)
    THEN (IF Find(b, <<"-","-",">">>, 5) = 0 THEN 0 ELSE Find(b, <<"-","-",">">>, 5) + 2)
    ELSE IF (StartsWith(b, <<"<","d","i","v",">">>) \/ StartsWith(b, <<"<","d","i","v"," ">>))
            /\ Find(b, <<"<","/","d","i","v",">">>, 5) # 0
         THEN Find(b, <<"<","/","d","i","v",">">>, 5) + 5
    ELSE 0

RECURSIVE RenderBlock(_)
RenderBlock(b) ==
    LET n == RawHtmlLen(b)
        tail == str_strip(Drop(b, n))
    IN  IF n = 0 THEN <<<<"<","p",">">> \o Inline(b) \o <<"<","/","p",">">>>>
        ELSE <<SubSeq(b, 1, n)>> \o (IF tail = <<>> THEN <<>> ELSE RenderBlock(tail))

\* the text up to the first blank line, and what follows that line
RECURSIVE BlockEnd(_, _)
BlockEnd(s, i) ==
    LET j == Find(s, <<"\n">>, i)
        k == IF j = 0 THEN 0 ELSE Find(s, <<"\n">>, j + 1)
    IN  IF j = 0 THEN Len(s)
        ELSE IF AllSpace(SubSeq(s, j + 1, IF k = 0 THEN Len(s) ELSE k)) THEN j - 1
        ELSE BlockEnd(s, j + 1)

RECURSIVE RenderBlocks(_)
RenderBlocks(s) ==
    LET t == Drop(s, SpacePrefixLen(s))
        e == BlockEnd(t, 1)
    IN  IF t = <<>> THEN <<>>
        ELSE RenderBlock(str_strip(SubSeq(t, 1, e))) \o RenderBlocks(Drop(t, e))

RECURSIVE JoinLines(_)
JoinLines(ss) ==
    IF ss = <<>> THEN <<>>
    ELSE IF Len(ss) = 1 THEN ss[1]
    ELSE ss[1] \o <<"\n">> \o JoinLines(Tail(ss))

markdown_markdown(plain) == JoinLines(RenderBlocks(plain))

----------------------------------------------------------------------------
(* convert.py *)

marker == <<"d","a","t","a","-","o","r","i","g","i","n","a","l","-","m","a","r","k","d","o","w","n">>

Ok(v) == [ok |-> TRUE, v |-> v, err |-> "none"]
Raise(e) == [ok |-> FALSE, v |-> <<>>, err |-> e]

PlainPunct == {" ", ",", ".", "?", "+", "-"}
Accented == {"U+00E6", "U+00F8", "U+00E5", "U+00C6", "U+00D8", "U+00C5"}
IsPlainChar(c) == IsLetter(c) \/ c \in Range(Digit) \/ c \in Accented \/ c \in PlainPunct

\* a fast path whose class has no punctuation
IsPlainText_NoPunctuation(s) ==
    LET IsAlnum(c) == IsLetter(c) \/ c \in Range(Digit) \/ c \in Accented
        n == PrefixLen(s, IsAlnum, 1)
    IN  n = Len(s) \/ (n = Len(s) - 1 /\ s[Len(s)] = "\n")

\* line 170: re.match of any number of plain characters and then $, which
\* stands at the end of the text or before a newline that ends it
IsPlainText(s) ==
    LET n == PrefixLen(s, IsPlainChar, 1)
    IN  n = Len(s) \/ (n = Len(s) - 1 /\ s[Len(s)] = "\n")

\* lines 174-177
EscapeLatex(p) ==
    str_replace(str_replace(str_replace(str_replace(p,
        <<"\\","\\">>, <<"\\","\\","\\","\\">>),
        <<"\\","{">>, <<"\\","\\","{">>),
        <<"\\","}">>, <<"\\","\\","}">>),
        <<"*","}">>, <<"\\","*","}">>)

\* line 180
FixWhitespace(p) == str_replace(str_replace(p, <<ACIRC, NBSP>>, <<" ">>), <<NBSP>>, <<" ">>)

\* lines 183-186
EscapeMathjax(p) ==
    str_replace(str_replace(str_replace(str_replace(p,
        <<"\\","[">>, <<"\\","\\","[">>),
        <<"\\","]">>, <<"\\","\\","]">>),
        <<"\\","(">>, <<"\\","\\","(">>),
        <<"\\",")">>, <<"\\","\\",")">>)

\* the class of the second group of the pattern of config_styles
IsStyledChar(c) == IsWord(c) \/ IsSpace(c) \/ c \in {".", ",", "&"}

\* lines 163-165: re.sub of <subfield>content</subfield> by begin content end
RECURSIVE config_styles(_, _, _)
config_styles(plain, subfield, replace) ==
    LET open == <<"<">> \o subfield \o <<">">>
        close == <<"<","/">> \o subfield \o <<">">>
        at == Find(plain, open, 1)
        rest == Drop(plain, at - 1)
        j == Find(rest, close, Len(open) + 1)
        inner == SubSeq(rest, Len(open) + 1, j - 1)
    IN  IF plain = <<>> THEN <<>>
        ELSE IF at = 0 THEN plain
        ELSE IF j # 0 /\ \A i \in 1..Len(inner) : IsStyledChar(inner[i])
             THEN SubSeq(plain, 1, at - 1) \o replace.begin \o inner \o replace.end
                      \o config_styles(Drop(rest, j + Len(close) - 1), subfield, replace)
        ELSE SubSeq(plain, 1, at) \o config_styles(Drop(plain, at), subfield, replace)

\* lines 189-191
RECURSIVE StyleAll(_, _)
StyleAll(plain, subfields) ==
    IF subfields = <<>> THEN plain
    ELSE StyleAll(config_styles(plain, subfields[1].name, subfields[1]), Tail(subfields))

PersonalStyling(plain) == IF cfg.has THEN StyleAll(plain, cfg.subfields) ELSE plain

\* the marker is set only where the rendered HTML has a tag of its own
AttachOriginal_NoWrapper(h, plain) ==
    IF get_first_tag(h).found
    THEN SetAttrOfFirstTag(h, marker,
             b64encode(utf8_encode(str_replace(plain, <<"\n">>, <<"<","b","r"," ","/",">">>))))
    ELSE h

\* lines 207-223: the marker is set on the first tag of the rendered HTML,
\* or on a <div> put around it when it has none
AttachOriginal(h, plain) ==
    LET h1 == IF get_first_tag(h).found THEN h
              ELSE <<"<","d","i","v",">">> \o (IF h = <<>> THEN <<"&","n","b","s","p",";">> ELSE h) \o <<"<","/","d","i","v",">">>
    IN  SetAttrOfFirstTag(h1, marker,
            b64encode(utf8_encode(str_replace(plain, <<"\n">>, <<"<","b","r"," ","/",">">>))))

\* lines 174-191: the text as it is handed to the Markdown engine
Prepared(plain) == PersonalStyling(EscapeMathjax(FixWhitespace(EscapeLatex(plain))))

\* lines 167-223
markdown_to_html(plain) ==
    IF IsPlainText(plain) THEN plain
    ELSE AttachOriginal(markdown_markdown(Prepared(plain)), Prepared(plain))

\* an extraction that answers the empty text where there is nothing to extract
html_to_markdown_Lenient(h) ==
    LET tg == get_first_tag(h)
        attrs == TagAttrs(h, tg)
        decoded == utf8_decode(b64decode(ItemGet(attrs, marker)))
    IN  IF ~tg.found THEN Ok(<<>>)
        ELSE IF marker \notin ItemKeys(attrs) THEN Ok(<<>>)
        ELSE IF ~B64WellFormed(ItemGet(attrs, marker)) THEN Raise("binascii.Error")
        ELSE IF ~decoded.ok THEN Raise("UnicodeDecodeError")
        ELSE Ok(str_replace(str_replace(decoded.s, <<"<","b","r",">">>, <<"\n">>), <<"<","b","r"," ","/",">">>, <<"\n">>))

\* lines 241-246
html_to_markdown(h) ==
    LET tg == get_first_tag(h)
        attrs == TagAttrs(h, tg)
        decoded == utf8_decode(b64decode(ItemGet(attrs, marker)))
    IN  IF ~tg.found THEN Raise("TypeError")
        ELSE IF marker \notin ItemKeys(attrs) THEN Raise("KeyError")
        ELSE IF ~B64WellFormed(ItemGet(attrs, marker)) THEN Raise("binascii.Error")
        ELSE IF ~decoded.ok THEN Raise("UnicodeDecodeError")
        ELSE Ok(str_replace(str_replace(decoded.s, <<"<","b","r",">">>, <<"\n">>), <<"<","b","r"," ","/",">">>, <<"\n">>))

\* lines 308-317; hv is None or a str
is_generated_html(hv) ==
    IF ~hv.some THEN FALSE
    ELSE /\ get_first_tag(hv.s).found
         /\ marker \in ItemKeys(TagAttrs(hv.s, get_first_tag(hv.s)))

\* the greatest j <= i at which pat occurs in s, or 0
FindLast(s, pat, i) ==
    LET J == {j \in 1..i : j + Len(pat) - 1 <= Len(s) /\ SubSeq(s, j, j + Len(pat) - 1) = pat}
    IN  IF J = {} THEN 0 ELSE CHOOSE j \in J : \A k \in J : j >= k

\* line 256: re.sub of <style>, anything (newlines too), </style> by ''
RemoveStyle(s) ==
    LET i == Find(s, <<"<","s","t","y","l","e",">">>, 1)
        j == FindLast(s, <<"<","/","s","t","y","l","e",">">>, Len(s))
    IN  IF i # 0 /\ j >= i + 7 THEN SubSeq(s, 1, i - 1) \o Drop(s, j + 7) ELSE s

\* lines 264-267
UnescapeLatex(p) ==
    str_replace(str_replace(str_replace(str_replace(p,
        <<"\\","\\","\\","\\">>, <<"\\","\\">>),
        <<"\\","\\","{">>, <<"\\","{">>),
        <<"\\","\\","}">>, <<"\\","}">>),
        <<"\\","*","}">>, <<"*","}">>)

\* lines 269-278
UnescapeHtml(p) ==
    str_replace(str_replace(str_replace(str_replace(str_replace(
    str_replace(str_replace(str_replace(str_replace(p,
        <<"&","l","t",";">>, <<"<">>),
        <<"&","g","t",";">>, <<">">>),
        <<"&","a","m","p",";">>, <<"&">>),
        <<"&","n","b","s","p",";">>, <<" ">>),
        <<"<","b","r",">">>, <<"\n">>),
        <<"<","b","r","/",">">>, <<"\n">>),
        <<"<","b","r"," ","/",">">>, <<"\n">>),
        <<"<","d","i","v",">">>, <<"\n">>),
        <<"<","/","d","i","v",">">>, <<>>)

\* lines 282-285
UnescapeMathjax(p) ==
    str_replace(str_replace(str_replace(str_replace(p,
        <<"\\","[">>, <<"[">>),
        <<"\\","]">>, <<"]">>),
        <<"\\","(">>, <<"(">>),
        <<"\\",")">>, <<")">>)

\* line 287: re.sub of <b>, whitespace, </b> by ''
RECURSIVE RemoveEmptyBold(_)
RemoveEmptyBold(s) ==
    LET at == Find(s, <<"<","b",">">>, 1)
        r == Drop(s, at + 2)
        n == SpacePrefixLen(r)
    IN  IF s = <<>> THEN <<>>
        ELSE IF at = 0 THEN s
        ELSE IF StartsWith(Drop(r, n), <<"<","/","b",">">>)
             THEN SubSeq(s, 1, at - 1) \o RemoveEmptyBold(Drop(r, n + 4))
        ELSE SubSeq(s, 1, at) \o RemoveEmptyBold(Drop(s, at))

\* the value of re.S, which lines 292-304 hand to re.sub as its count
re_S == 16

\* re.sub(open (.*?) close, pre \1 post, s, count): the dot matches no newline
RECURSIVE SubSpans(_, _, _, _, _, _)
SubSpans(s, open, close, pre, post, count) ==
    LET at == Find(s, open, 1)
        rest == Drop(s, at - 1)
        j == Find(rest, close, Len(open) + 1)
        inner == SubSeq(rest, Len(open) + 1, j - 1)
    IN  IF s = <<>> \/ count = 0 \/ at = 0 THEN s
        ELSE IF j # 0 /\ "\n" \notin Range(inner)
             THEN SubSeq(s, 1, at - 1) \o pre \o inner \o post
                      \o SubSpans(Drop(rest, j + Len(close) - 1), open, close, pre, post, count - 1)
        ELSE SubSeq(s, 1, at) \o SubSpans(Drop(s, at), open, close, pre, post, count)

\* click.style(..., bold=True) and click.style(..., underline=True)
AnsiBold == <<"ESC[1m">>
AnsiUnderline == <<"ESC[4m">>
AnsiReset == <<"ESC[0m">>

\* lines 290-304
StyleForScreen(p) ==
    SubSpans(SubSpans(SubSpans(SubSpans(p,
        <<"*","*">>, <<"*","*">>, AnsiBold, AnsiReset, re_S),
        <<"<","b",">">>, <<"<","/","b",">">>, AnsiBold, AnsiReset, re_S),
        <<"_">>, <<"_">>, AnsiUnderline, AnsiReset, re_S),
        <<"<","i",">">>, <<"<","/","i",">">>, AnsiUnderline, AnsiReset, re_S)

\* lines 256-306 (pprint=True); hv is None or a str
html_to_screen(hv, parseable) ==
    LET h == RemoveStyle(hv.s)
        generated == is_generated_html(Some(h))
        md == IF generated THEN html_to_markdown(h) ELSE Ok(h)
        p1 == UnescapeHtml(UnescapeLatex(md.v))
        p2 == RemoveEmptyBold(IF generated THEN UnescapeMathjax(p1) ELSE p1)
    IN  IF ~hv.some THEN Raise("TypeError")
        ELSE IF ~md.ok THEN md
        ELSE Ok(str_strip(IF parseable THEN p2 ELSE StyleForScreen(p2)))

\* a reader that extracts from the value whatever it is
html_to_screen_calls_Unguarded(hv) == IF hv.some THEN <<RemoveStyle(hv.s)>> ELSE <<>>

\* convert.py lines 256-261: html_to_markdown(plain) under "if generated"
html_to_screen_calls(hv) ==
    IF hv.some /\ is_generated_html(Some(RemoveStyle(hv.s)))
    THEN <<RemoveStyle(hv.s)>> ELSE <<>>

----------------------------------------------------------------------------
(* The converters at work: a text is put together from at most MaxFrags    *)
(* fragments and rendered, or a field value from elsewhere is loaded; then *)
(* one of the readers is applied to the stored value; out holds what it    *)
(* returned and, for the readers that extract under a guard, the values    *)
(* they handed to html_to_markdown (calls).                                *)

MaxFrags == 2

Fragments == {
    <<"a">>, <<"?">>, <<"U+00E6">>, <<"!">>, <<"\n">>,
    <<"\\","[">>, <<"\\","\\">>, <<"*","}">>, <<NBSP>>,
    <<"<","b","r",">">>, <<"<","k",">","b","<","/","k",">">>, <<"<","!","-","-","c","-","-",">">>,
    <<"<","i"," ","d","a","t","a","-","o","r","i","g","i","n","a","l","-","m","a","r","k","d","o","w","n","=","\"","Y","g","=","=","\"",">","c","<","/","i",">">> }

\* apy.config.cfg: without and with a 'subfields' table
Configs == {
    [has |-> FALSE, subfields |-> <<>>],
    [has |-> TRUE, subfields |-> <<[name |-> <<"k">>, begin |-> <<"*","*">>, end |-> <<"*","*">>]>>] }

\* field values that apy did not write (and None), each with what its author
\* knows of it: whether its first top-level element carries the marker
Foreign == {
    [h |-> None, marked |-> FALSE],
    [h |-> Some(<<"a"," ","b">>), marked |-> FALSE],
    [h |-> Some(<<"<","b",">","x","<","/","b",">"," ","\\","[","y","\\","]","<","d","i","v",">","z","<","/","d","i","v",">","&","n","b","s","p",";">>), marked |-> FALSE],
    [h |-> Some(<<"<","p",">","a","<","/","p",">","<","p"," ","d","a","t","a","-","o","r","i","g","i","n","a","l","-","m","a","r","k","d","o","w","n","=","\"","Y","g","=","=","\"",">","b","<","/","p",">">>), marked |-> FALSE],
    [h |-> Some(<<"<","d","i","v",">","<","p"," ","d","a","t","a","-","o","r","i","g","i","n","a","l","-","m","a","r","k","d","o","w","n","=","\"","Y","g","=","=","\"",">","b","<","/","p",">","<","/","d","i","v",">">>), marked |-> FALSE],
    [h |-> Some(<<"<","!","-","-"," ","d","a","t","a","-","o","r","i","g","i","n","a","l","-","m","a","r","k","d","o","w","n"," ","-","-",">","<","p",">","a","<","/","p",">">>), marked |-> FALSE],
    [h |-> Some(<<"<","s","t","y","l","e",">","p","{","}","<","/","s","t","y","l","e",">","<","p"," ","d","a","t","a","-","o","r","i","g","i","n","a","l","-","m","a","r","k","d","o","w","n","=","\"","/","w","=","=","\"",">","a","<","/","p",">">>), marked |-> FALSE],
    [h |-> Some(<<"<","p"," ","d","a","t","a","-","o","r","i","g","i","n","a","l","-","m","a","r","k","d","o","w","n","=","\"","Y","Q","=","=","\"",">","a","<","/","p",">">>), marked |-> TRUE],
    [h |-> Some(<<"x","<","p"," ","c","l","a","s","s","=","\"","c","\""," ","d","a","t","a","-","o","r","i","g","i","n","a","l","-","m","a","r","k","d","o","w","n","=","\"","Y","Q","=","=","\"",">","a","<","/","p",">">>), marked |-> TRUE] }

NoOut == [op |-> "none", parseable |-> FALSE, r |-> Ok(<<>>)]

ConvInit ==
    /\ cpc = "input"
    /\ cfg \in Configs
    /\ text = <<>>
    /\ nfrag = 0
    /\ html = None
    /\ origin = "none"
    /\ marked = FALSE
    /\ out = NoOut

ConvIdle ==
    /\ cpc = "idle"
    /\ cfg = [has |-> FALSE, subfields |-> <<>>]
    /\ text = <<>>
    /\ nfrag = 0
    /\ html = None
    /\ origin = "none"
    /\ marked = FALSE
    /\ out = NoOut

AddFragment(f) ==
    /\ cpc = "input"
    /\ nfrag < MaxFrags
    /\ text' = text \o f
    /\ nfrag' = nfrag + 1
    /\ UNCHANGED <<cpc, cfg, html, origin, marked, out, parsevars, addvars>>

\* the field value is markdown_to_html(text)
Render ==
    /\ cpc = "input"
    /\ cpc' = "stored"
    /\ html' = Some(markdown_to_html(text))
    /\ origin' = "rendered"
    /\ UNCHANGED <<cfg, text, nfrag, marked, out, parsevars, addvars>>

\* the field value comes from elsewhere
LoadForeign(f) ==
    /\ cpc = "input"
    /\ nfrag = 0
    /\ cpc' = "stored"
    /\ html' = f.h
    /\ marked' = f.marked
    /\ origin' = "foreign"
    /\ UNCHANGED <<cfg, text, nfrag, out, parsevars, addvars>>

ApplyIsGenerated ==
    /\ cpc = "stored"
    /\ cpc' = "applied"
    /\ out' = [op |-> "is_generated_html", parseable |-> FALSE,
               r |-> Ok(is_generated_html(html))]
    /\ UNCHANGED <<cfg, text, nfrag, html, origin, marked, parsevars, addvars>>

\* BeautifulSoup(None) raises TypeError
ApplyHtmlToMarkdown ==
    /\ cpc = "stored"
    /\ cpc' = "applied"
    /\ out' = [op |-> "html_to_markdown", parseable |-> FALSE,
               r |-> IF html.some THEN html_to_markdown(html.s) ELSE Raise("TypeError")]
    /\ UNCHANGED <<cfg, text, nfrag, html, origin, marked, parsevars, addvars>>

ApplyHtmlToScreen(parseable) ==
    /\ cpc = "stored"
    /\ cpc' = "applied"
    /\ out' = [op |-> "html_to_screen", parseable |-> parseable,
               r |-> html_to_screen(html, parseable),
               calls |-> html_to_screen_calls(html)]
    /\ UNCHANGED <<cfg, text, nfrag, html, origin, marked, parsevars, addvars>>

----------------------------------------------------------------------------
(* cli.py: markdown_to_html as the collection wrapper uses it *)

\* cli.py lines 644-698
cli_markdown_to_html(plain) ==
    IF IsPlainText(plain) THEN plain
    ELSE AttachOriginal(markdown_markdown(EscapeMathjax(FixWhitespace(plain))),
                        EscapeMathjax(FixWhitespace(plain)))

----------------------------------------------------------------------------
(* cli.py: class Anki.  The collection col is the sequence of its notes,   *)
(* each [model, fields, tags]; the models of the collection are fixed.     *)

\* col.models.all(): the names and the field names of the models
AnkiModels == <<[name |-> s_Basic, flds |-> <<<<"F","r","o","n","t">>, <<"B","a","c","k">>>>],
                [name |-> <<"M">>, flds |-> <<<<"F">>>>]>>

\* line 55
model_names == {AnkiModels[i].name : i \in 1..Len(AnkiModels)}
ModelNamed(name) == AnkiModels[CHOOSE i \in 1..Len(AnkiModels) : AnkiModels[i].name = name]

\* the state of the Anki object
Anki == [current |-> current, col |-> col, modified |-> modified]

\* lines 161-173; the result is the model's name, ok is FALSE for click.Abort
set_model(A, model_string) ==
    IF A.current = model_string THEN [ok |-> TRUE, A |-> A, model |-> A.current]
    ELSE IF model_string \notin model_names THEN [ok |-> FALSE, A |-> A, model |-> <<>>]
    ELSE [ok |-> TRUE, A |-> [A EXCEPT !.current = model_string], model |-> model_string]

\* note.dupeOrEmpty(): the first field is blank, or a note of the same model
\* in the collection has the same first field
dupeOrEmpty(A, n) ==
    \/ AllSpace(n.fields[1])
    \/ \E i \in 1..Len(A.col) :
          A.col[i].model = n.model /\ A.col[i].fields[1] = n.fields[1]

\* lines 256-265: col.newNote(), its fields and its tags
NewNote(A, fields, tags, markdown) ==
    [model |-> A.current,
     fields |-> IF markdown THEN [i \in 1..Len(fields) |-> cli_markdown_to_html(fields[i])]
                ELSE fields,
     tags |-> str_split(str_strip(tags))]

\* a refused note that still marks the collection as modified
add_note_DupeModifies(A, fields, tags, markdown) ==
    LET n == NewNote(A, fields, tags, markdown)
    IN  IF ~dupeOrEmpty(A, n)
        THEN [A EXCEPT !.col = Append(A.col, n), !.modified = TRUE]
        ELSE [A EXCEPT !.modified = TRUE]

\* lines 254-275
add_note(A, fields, tags, markdown) ==
    LET n == NewNote(A, fields, tags, markdown)
    IN  IF ~dupeOrEmpty(A, n)
        THEN [A EXCEPT !.col = Append(A.col, n), !.modified = TRUE]
        ELSE A

FieldNames(n) == [i \in 1..Len(n[k_fields].d) |-> n[k_fields].d[i].k]
FieldValues(n) == [i \in 1..Len(n[k_fields].d) |-> n[k_fields].d[i].v]

\* lines 243-246: the positions at which the warning is printed
Inconsistent(model_field_names, field_names) ==
    {i \in 1..Len(field_names) : model_field_names[i] # field_names[i]}

\* an iteration that treats inconsistent field names as an error
add_one_NamesAbort(A, n, tags) ==
    LET sm == set_model(A, n[k_model].s)
        model_field_names == ModelNamed(sm.model).flds
    IN  IF ~sm.ok THEN [st |-> "abort", A |-> A, warn |-> FALSE]
        ELSE IF \/ Len(FieldNames(n)) # Len(model_field_names)
                \/ Inconsistent(model_field_names, FieldNames(n)) # {}
             THEN [st |-> "abort", A |-> [sm.A EXCEPT !.modified = FALSE], warn |-> FALSE]
        ELSE [st |-> "ok",
              A |-> add_note(sm.A, FieldValues(n), tags \o <<" ">> \o n[k_tags].s,
                             n[k_markdown].b),
              warn |-> FALSE]

\* lines 230-250: one iteration of the loop, for note n and tags argument tags;
\* st is "ok" or "abort"
add_one(A, n, tags) ==
    LET sm == set_model(A, n[k_model].s)
        model_field_names == ModelNamed(sm.model).flds
    IN  IF ~sm.ok THEN [st |-> "abort", A |-> A, warn |-> FALSE]
        ELSE IF Len(FieldNames(n)) # Len(model_field_names)
             THEN [st |-> "abort", A |-> [sm.A EXCEPT !.modified = FALSE], warn |-> FALSE]
        ELSE [st |-> "ok",
              A |-> add_note(sm.A, FieldValues(n), tags \o <<" ">> \o n[k_tags].s,
                             n[k_markdown].b),
              warn |-> Inconsistent(model_field_names, FieldNames(n)) # {}]

----------------------------------------------------------------------------
(* The calls of add_notes_from_list: a list of at most MaxNotes parsed     *)
(* notes, drawn from ParsedNotes, is added to a collection.                *)

MaxNotes == 3

ParsedNote(model, tags, markdown, fields) ==
    DictSet(DictSet(DictSet(DictSet(EmptyDict, k_model, StrV(model)), k_tags, StrV(tags)),
                    k_markdown, BoolV(markdown)), k_fields, DictV(fields))

Item(k, v) == [k |-> k, v |-> v]

ParsedNotes == {
    ParsedNote(s_Basic, <<"x">>, TRUE, <<Item(<<"F","r","o","n","t">>, <<"q">>), Item(<<"B","a","c","k">>, <<"a","!">>)>>),
    ParsedNote(s_Basic, <<"x"," ","y">>, FALSE, <<Item(<<"F","r","o","n","t">>, <<"r">>), Item(<<"A","n","s","w","e","r">>, <<"a">>)>>),
    ParsedNote(s_Basic, <<>>, TRUE, <<Item(<<"F","r","o","n","t">>, <<"o","l","d">>), Item(<<"B">>, <<"a">>)>>),
    ParsedNote(s_Basic, <<>>, TRUE,
               <<Item(<<"F","r","o","n","t">>, <<"s">>), Item(<<"B","a","c","k">>, <<"a">>), Item(<<"M","o","r","e">>, <<"b">>)>>),
    ParsedNote(<<"M">>, <<>>, TRUE, <<Item(<<"F">>, <<"q">>)>>),
    ParsedNote(<<"N","o","p","e">>, <<>>, TRUE, <<Item(<<"F","r","o","n","t">>, <<"t">>), Item(<<"B","a","c","k">>, <<"a">>)>>) }

\* the collection before the call: empty, or holding one note
Collections == {
    <<>>,
    <<[model |-> s_Basic, fields |-> <<<<"o","l","d">>, <<"a">>>>, tags |-> <<>>]>> }

\* no review is going on
NoRev == [flow |-> "none", at |-> 0, last |-> 0, n |-> 0, key |-> "", op |-> "none",
          asked |-> FALSE, answer |-> FALSE,
          ed |-> [retcode |-> 0, notes |-> <<>>], added |-> 0, suspended |-> FALSE,
          ops |-> {}]

AddInit ==
    /\ apc = "adding"
    /\ parsed \in UNION {[1..n -> ParsedNotes] : n \in 0..MaxNotes}
    /\ idx = 0
    /\ current = s_Basic
    /\ col \in Collections
    /\ col0 = col
    /\ modified = FALSE
    /\ result = <<>>
    /\ warned = {}
    /\ closed = FALSE
    /\ rev = NoRev

AddIdle ==
    /\ apc = "idle"
    /\ parsed = <<>>
    /\ idx = 0
    /\ current = s_Basic
    /\ col = <<>>
    /\ col0 = <<>>
    /\ modified = FALSE
    /\ result = <<>>
    /\ warned = {}
    /\ closed = FALSE
    /\ rev = NoRev

\* add_notes_from_list, lines 230-250: the loop's next iteration
AddNext ==
    /\ apc = "adding"
    /\ idx < Len(parsed)
    /\ LET r == add_one(Anki, parsed[idx + 1], <<>>)
       IN  /\ apc' = IF r.st = "ok" THEN "adding" ELSE "aborted"
           /\ idx' = idx + 1
           /\ current' = r.A.current
           /\ col' = r.A.col
           /\ modified' = r.A.modified
           /\ result' = IF r.st = "ok" THEN Append(result, parsed[idx + 1]) ELSE result
           /\ warned' = IF r.warn THEN warned \cup {idx + 1} ELSE warned
    /\ UNCHANGED <<parsed, col0, closed, rev, parsevars, convvars>>

\* add_notes_from_list, line 252
AddReturn ==
    /\ apc = "adding"
    /\ idx = Len(parsed)
    /\ apc' = "returned"
    /\ UNCHANGED <<parsed, idx, current, col, col0, modified, result, warned, closed,
                   rev, parsevars, convvars>>

\* an exit that closes the collection whatever modified is
Exit_AlwaysCloses ==
    /\ apc \in {"returned", "aborted", "crashed"}
    /\ apc' = "exited"
    /\ closed' = TRUE
    /\ UNCHANGED <<parsed, idx, current, col, col0, modified, result, warned, rev,
                   parsevars, convvars>>

\* Anki.__exit__, lines 62-66, run when the with block of a command is left,
\* by its end or by an exception
Exit ==
    /\ apc \in {"returned", "aborted", "crashed"}
    /\ apc' = "exited"
    /\ closed' = modified
    /\ UNCHANGED <<parsed, idx, current, col, col0, modified, result, warned, rev,
                   parsevars, convvars>>

----------------------------------------------------------------------------
(* cli.py: a note written out as text and parsed again (MyNote.edit) *)

\* cli.py lines 705-747; hv is None or a str
cli_html_to_screen(hv, parseable) ==
    LET generated == is_generated_html(hv)
        md == IF generated THEN html_to_markdown(hv.s) ELSE Ok(hv.s)
        \* lines 711-719
        u == str_replace(str_replace(str_replace(str_replace(str_replace(
             str_replace(str_replace(str_replace(md.v,
                 <<"&","l","t",";">>, <<"<">>),
                 <<"&","g","t",";">>, <<">">>),
                 <<"&","n","b","s","p",";">>, <<" ">>),
                 <<"<","b","r",">">>, <<"\n">>),
                 <<"<","b","r","/",">">>, <<"\n">>),
                 <<"<","b","r"," ","/",">">>, <<"\n">>),
                 <<"<","d","i","v",">">>, <<"\n">>),
                 <<"<","/","d","i","v",">">>, <<>>)
        p == RemoveEmptyBold(UnescapeMathjax(u))
    IN  IF ~hv.some THEN Raise("AttributeError")
        ELSE IF ~md.ok THEN md
        ELSE Ok(str_strip(IF parseable THEN p ELSE StyleForScreen(p)))

\* '\n'.join(lines)
RECURSIVE JoinWithNewline(_)
JoinWithNewline(ls) ==
    IF ls = <<>> THEN <<>>
    ELSE IF Len(ls) = 1 THEN ls[1]
    ELSE ls[1] \o <<"\n">> \o JoinWithNewline(Tail(ls))

\* MyNote.__repr__, cli.py lines 289-310, for a note of model Basic with id 1,
\* tag t and the field values front and back
MyNote_repr(front, back) ==
    JoinWithNewline(
        << <<"#"," ","N","o","t","e"," ","I","D",":"," ","1">>, <<"m","o","d","e","l",":"," ","B","a","s","i","c">>, <<"t","a","g","s",":"," ","t">> >>
        \o (IF ~is_generated_html(front) /\ ~is_generated_html(back)
            THEN << <<"m","a","r","k","d","o","w","n",":"," ","f","a","l","s","e">> >> ELSE <<>>)
        \o << <<>> >>
        \o << <<"#","#"," ","F","r","o","n","t">> \o (IF is_generated_html(front) THEN <<" ","(","m","d",")">> ELSE <<>>),
               cli_html_to_screen(front, TRUE).v,
               <<>> >>
        \o << <<"#","#"," ","B","a","c","k">> \o (IF is_generated_html(back) THEN <<" ","(","m","d",")">> ELSE <<>>),
               cli_html_to_screen(back, TRUE).v,
               <<>> >>)

\* "for line in open(filename)": the lines of a text, each with its newline
RECURSIVE FileLines(_)
FileLines(s) ==
    LET n == PrefixLen(s, NotNewline, 1)
    IN  IF s = <<>> THEN <<>>
        ELSE IF n = Len(s) THEN <<s>>
        ELSE <<SubSeq(s, 1, n + 1)>> \o FileLines(Drop(s, n + 1))

\* the values a field of the note may hold: Markdown texts that _add_note
\* stored, and other HTML
StoredValues ==
    {cli_markdown_to_html(t) : t \in {
        <<"a","!">>,
        <<"a","!","\n","b">>,
        <<"k",":"," ","v","!">>,
        <<"a","!","\n","k",":"," ","v">>,
        <<"#"," ","T","\n","b">>,
        <<"a","!","\n","#"," ","T">>,
        <<"a","!","\n","#","#"," ","S","\n","b">>,
        <<"a","!","\n","#","#","#"," ","h","\n","b">>,
        <<"a","!","\n","\n",BQ,BQ,BQ," ","\n","#"," ","T","\n",BQ,BQ,BQ>> }}
    \cup { <<"p","l","a","i","n">>, <<"<","b",">","x","<","/","b",">","<","b","r",">","y">>, <<"x","<","b","r",">","#"," ","y">>, <<"<","d","i","v",">","k",":"," ","v","<","/","d","i","v",">">> }

\* MyNote.edit, cli.py lines 394-407: str(self) is written to a file, which
\* parse_notes_from_markdown then reads
TemplateInit ==
    /\ pc = "reading"
    /\ nread = 0
    /\ eof = FALSE
    /\ line = <<>>
    /\ defaults = EmptyDict
    /\ notes = <<>>
    /\ note = EmptyDict
    /\ codeblock = FALSE
    /\ field = None
    /\ h1seen = 0
    /\ dupseen = FALSE
    /\ kind = NoKind
    /\ assembled = [by |-> "none", notes |-> <<>>]
    /\ cpc = "applied"
    /\ cfg = [has |-> FALSE, subfields |-> <<>>]
    /\ text = <<>>
    /\ nfrag = 0
    /\ html \in {Some(v) : v \in StoredValues}
    /\ origin = IF is_generated_html(html) THEN "rendered" ELSE "foreign"
    /\ marked = FALSE
    /\ out = [op |-> "html_to_screen", parseable |-> TRUE,
              r |-> cli_html_to_screen(html, TRUE)]
    /\ file = FileLines(MyNote_repr(html, Some(<<"b">>)))

----------------------------------------------------------------------------
(* The readers of a stored field value, each with the values it hands to   *)
(* html_to_markdown (calls).                                               *)

\* cli.py lines 708-710, 469-470 and 487-488: html_to_markdown(v) under
\* "if is_generated_html(v)"
cli_calls(hv) == IF is_generated_html(hv) THEN <<hv.s>> ELSE <<>>

\* html_to_screen of cli.py, lines 705-747, as MyNote.__repr__, get_template,
\* print and print_short apply it to each field value
ApplyCliHtmlToScreen(parseable) ==
    /\ cpc = "stored"
    /\ cpc' = "applied"
    /\ out' = [op |-> "cli.html_to_screen", parseable |-> parseable,
               r |-> cli_html_to_screen(html, parseable),
               calls |-> cli_calls(html)]
    /\ UNCHANGED <<cfg, text, nfrag, html, origin, marked, parsevars, addvars>>

\* MyNote.get_field, cli.py lines 479-490
get_field(hv) == IF is_generated_html(hv) THEN html_to_markdown(hv.s) ELSE Ok(hv.s)

ApplyGetField ==
    /\ cpc = "stored"
    /\ html.some
    /\ cpc' = "applied"
    /\ out' = [op |-> "get_field", parseable |-> FALSE,
               r |-> get_field(html), calls |-> cli_calls(html)]
    /\ UNCHANGED <<cfg, text, nfrag, html, origin, marked, parsevars, addvars>>

\* MyNote.toggle_markdown, cli.py lines 461-476, on the field that holds the
\* stored value: the new value of the field, or the exception raised
toggle_markdown(hv) ==
    IF is_generated_html(hv) THEN html_to_markdown(hv.s)
    ELSE Ok(cli_markdown_to_html(hv.s))

\* one call of toggle_markdown, the first on the stored value (v0) or a
\* second one straight after the first; n counts the calls
ApplyToggleMarkdown ==
    /\ \/ cpc = "stored"
       \/ cpc = "applied" /\ out.op = "toggle_markdown" /\ out.r.ok /\ out.n < 2
    /\ html.some
    /\ cpc' = "applied"
    /\ LET new == toggle_markdown(html)
       IN  /\ html' = IF new.ok THEN Some(new.v) ELSE html
           /\ modified' = (modified \/ new.ok)
           /\ out' = [op |-> "toggle_markdown", parseable |-> FALSE,
                      r |-> new, calls |-> cli_calls(html),
                      v0 |-> IF cpc = "stored" THEN html ELSE out.v0,
                      n |-> IF cpc = "stored" THEN 1 ELSE out.n + 1]
    /\ UNCHANGED <<cfg, text, nfrag, origin, marked, parsevars,
                   apc, parsed, idx, current, col, col0, result, warned, closed, rev>>

----------------------------------------------------------------------------
(* cli.py: the commands review, list and add.  A session reviews the notes *)
(* of the collection, or the notes it has just added, in turn; each key    *)
(* the user presses in _review_note is one step, at most MaxSteps of them. *)
(* rev.flow is the command; rev.at is the place in col of the note shown   *)
(* and rev.last that of the last note to review; rev.key is the key        *)
(* pressed last and rev.op the action it chose, with the question asked    *)
(* (asked, answer), what the editor left behind (ed) and the length of the *)
(* list an add returned (added); rev.ops are the actions of the session so *)
(* far.                                                                    *)

MaxSteps == 3

\* the i-th element taken out of a sequence
RemoveAt(s, i) == SubSeq(s, 1, i - 1) \o SubSeq(s, i + 1, Len(s))

\* Anki.delete_notes, lines 152-158, for the note at place i
delete_notes(A, i) == [A EXCEPT !.col = RemoveAt(A.col, i), !.modified = TRUE]

\* MyNote.toggle_marked, lines 440-447
toggle_marked(A, i) ==
    LET tags == A.col[i].tags
    IN  [A EXCEPT !.col[i].tags = IF \E j \in 1..Len(tags) : tags[j] = s_marked
                                  THEN SelectSeq(tags, LAMBDA t : t # s_marked)
                                  ELSE Append(tags, s_marked),
                  !.modified = TRUE]

\* F(x), with x computed once
Once(x, F(_)) == CHOOSE y \in {F(v) : v \in {x}} : TRUE

\* Anki.add_notes_from_list, lines 227-252: st is "ok" or "abort", n the
\* length of the list returned
RECURSIVE add_notes_from_list(_, _, _)
add_notes_from_list(A, ns, tags) ==
    IF ns = <<>> THEN [st |-> "ok", A |-> A, n |-> 0]
    ELSE Once(add_one(A, ns[1], tags), LAMBDA r :
             IF r.st # "ok" THEN [st |-> "abort", A |-> r.A, n |-> 0]
             ELSE Once(add_notes_from_list(r.A, Tail(ns), tags), LAMBDA t :
                      [st |-> t.st, A |-> t.A, n |-> t.n + 1]))

\* what the editor leaves behind: its exit code and the notes that
\* parse_notes_from_markdown reads from the file
Edited(retcode, ns) == [retcode |-> retcode, notes |-> ns]

\* the editor was not run
NoEdit == Edited(0, <<>>)

EditedFiles ==
    LET P1 == ParsedNote(s_Basic, <<"x">>, TRUE, <<Item(<<"F","r","o","n","t">>, <<"q">>), Item(<<"B","a","c","k">>, <<"a">>)>>)
        P2 == ParsedNote(s_Basic, <<"x"," ","y">>, FALSE, <<Item(<<"F","r","o","n","t">>, <<"r">>), Item(<<"B","a","c","k">>, <<"a">>)>>)
        P3 == ParsedNote(s_Basic, <<>>, TRUE, <<Item(<<"F","r","o","n","t">>, <<"n">>), Item(<<"B","a","c","k">>, <<"a">>)>>)
        P4 == ParsedNote(s_Basic, <<>>, TRUE,
                         <<Item(<<"F","r","o","n","t">>, <<"s">>), Item(<<"B","a","c","k">>, <<"a">>), Item(<<"M","o","r","e">>, <<"b">>)>>)
    IN  { Edited(1, <<>>), Edited(1, <<P1, P3>>),
          Edited(0, <<>>), Edited(0, <<P1>>), Edited(0, <<P2, P3>>),
          Edited(0, <<P1, P4>>), Edited(0, <<P4>>) }

\* lines 418-427: the fields of the note at place i after the values of the
\* parsed note were written over them
WrittenFields(old, first) ==
    [j \in 1..Len(old.fields) |->
        IF j > Len(FieldValues(first)) THEN old.fields[j]
        ELSE IF first[k_markdown].b THEN cli_markdown_to_html(FieldValues(first)[j])
        ELSE FieldValues(first)[j]]

\* lines 412-433, once the file was read and holds a note
edit_notes(A, i, ns) ==
    Once(add_notes_from_list(A, Tail(ns), <<>>), LAMBDA r :
        IF r.st # "ok" THEN [st |-> r.st, A |-> r.A, added |-> 0]
        ELSE IF Len(FieldValues(ns[1])) > Len(r.A.col[i].fields)
             THEN [st |-> "crash", A |-> r.A, added |-> r.n]
        ELSE [st |-> "ok",
              A |-> [r.A EXCEPT !.col[i].fields = WrittenFields(r.A.col[i], ns[1]),
                                !.col[i].tags = str_split(ns[1][k_tags].s),
                                !.modified = TRUE],
              added |-> r.n])

\* an edit that reads the file whatever the editor's exit code was
edit_IgnoresRetcode(A, i, ed) ==
    IF ed.notes = <<>> THEN [st |-> "ok", A |-> A, added |-> 0]
    ELSE edit_notes(A, i, ed.notes)

\* MyNote.edit, lines 389-433, for the note at place i: the editor fails
\* (lines 402-404), the file holds no note (408-410), further notes are
\* added (412-416), and the first note is written and modified set
\* (418-430); a field too many raises IndexError at line 427 before anything
\* is flushed.  The question of lines 431-433 changes nothing.
edit(A, i, ed) ==
    IF ed.retcode # 0 THEN [st |-> "ok", A |-> A, added |-> 0]
    ELSE IF ed.notes = <<>> THEN [st |-> "ok", A |-> A, added |-> 0]
    ELSE edit_notes(A, i, ed.notes)

\* Anki.add_notes_with_editor with a note as template, lines 176-220
add_notes_with_editor(A, ed) ==
    IF ed.retcode # 0 THEN [st |-> "ok", A |-> A, n |-> 0]
    ELSE add_notes_from_list(A, ed.notes, <<>>)

\* the collections a session begins with
ReviewCollections ==
    LET n1 == [model |-> s_Basic, fields |-> <<<<"q">>, cli_markdown_to_html(<<"a","!">>)>>,
               tags |-> <<s_marked>>]
        n2 == [model |-> s_Basic, fields |-> <<<<"r">>, <<"b">>>>, tags |-> <<s_marked, <<"x">>>>]
    IN  { <<n1>>, <<n1, n2>> }

\* lines 866, 925 and 1031: a command enters its with block
ReviewInit ==
    /\ apc \in {"review", "list", "add"}
    /\ parsed = <<>>
    /\ idx = 0
    /\ current = s_Basic
    /\ col \in ReviewCollections
    /\ col0 = col
    /\ modified = FALSE
    /\ result = <<>>
    /\ warned = {}
    /\ closed = FALSE
    /\ rev = [NoRev EXCEPT !.at = 1, !.last = Len(col), !.flow = apc]

\* the command add for model Basic, lines 866-873: the notes are added with
\* the editor and, on a yes to the question of line 870, reviewed in turn.
\* The list returned holds a note for every parsed note, stored or not; the
\* review is followed when every note of the list was stored, and these are
\* then the last notes of col.
AddCommand(ed, yes) ==
    /\ apc = "add"
    /\ \E r \in {add_notes_with_editor(Anki, ed)} :
          /\ yes => (r.st = "ok" /\ r.n = Len(r.A.col) - Len(col))
          /\ current' = r.A.current
          /\ col' = r.A.col
          /\ modified' = r.A.modified
          /\ apc' = IF r.st = "abort" THEN "aborted"
                    ELSE IF yes /\ r.n > 0 THEN "review"
                    ELSE "returned"
          /\ rev' = [rev EXCEPT !.at = Len(col) + 1, !.last = Len(r.A.col),
                                !.op = "add", !.ops = rev.ops \cup {"add"},
                                !.asked = (r.st = "ok"), !.answer = yes,
                                !.ed = ed, !.added = r.n]
    /\ UNCHANGED <<parsed, idx, col0, result, warned, closed, parsevars, convvars>>

\* the dictionary actions of _review_note, lines 938-948, from keys to the
\* names of the actions, written here as the names of rev.op
actions ==
    [k \in {"c", "e", "d", "m", "*", "z", "a", "s", "x"} |->
        CASE k = "c" -> "continue"
          [] k = "e" -> "edit"
          [] k = "d" -> "delete"
          [] k = "m" -> "toggle_markdown"
          [] k = "*" -> "toggle_marked"
          [] k = "z" -> "toggle_suspend"
          [] k = "a" -> "add_new"
          [] k = "s" -> "save_and_stop"
          [] k = "x" -> "abort"]

\* lines 950-952: the actions left when those of remove_actions are taken out
RemoveActions(remove_actions) ==
    [k \in {k \in DOMAIN actions : actions[k] \notin remove_actions} |-> actions[k]]

\* the argument remove_actions of the calls of lines 872 and 929
remove_actions == IF rev.flow = "add" THEN {"abort"} ELSE {}

\* the keys the user may press: those of actions and one more
ReviewKeys == DOMAIN actions \cup {"q"}

\* lines 972-973: the action that key choice stands for; "print" stands for
\* None, the value for which no branch of the loop is taken
Action(choice) ==
    IF choice \in DOMAIN RemoveActions(remove_actions)
    THEN RemoveActions(remove_actions)[choice]
    ELSE "print"

\* one pass of the loop of _review_note, lines 954-1024, and of the loops of
\* review, lines 928-930, and of add, lines 871-873: key stands for action
\* op, which leaves the Anki object as A and ends as st: "ok" (the loop goes
\* on), "stop", "abort" or "crash"; at1 and last1 are the places of the note
\* shown next and of the last note
ReviewStep(op, key, A, st, at1, last1, asked, answer, ed, added, suspended) ==
    /\ apc = "review"
    /\ rev.n < MaxSteps
    /\ Action(key) = op
    /\ current' = A.current
    /\ col' = A.col
    /\ modified' = A.modified
    /\ apc' = IF st = "abort" THEN "aborted"
              ELSE IF st = "crash" THEN "crashed"
              ELSE IF st = "stop" \/ at1 > last1 THEN "returned"
              ELSE "review"
    /\ rev' = [flow |-> rev.flow, at |-> at1, last |-> last1, n |-> rev.n + 1,
               key |-> key, op |-> op,
               asked |-> asked, answer |-> answer, ed |-> ed, added |-> added,
               suspended |-> suspended, ops |-> rev.ops \cup {op}]
    /\ UNCHANGED <<parsed, idx, col0, result, warned, closed, parsevars, convvars>>

\* Continue, lines 975-976
ReviewContinue ==
    ReviewStep("continue", "c", Anki, "ok", rev.at + 1, rev.last, FALSE, FALSE, NoEdit, 0, FALSE)

\* a key that stands for no action: no branch of lines 975-1024 is taken and
\* the note is printed again (line 970)
ReviewOtherKey ==
    \E key \in ReviewKeys :
        ReviewStep("print", key, Anki, "ok", rev.at, rev.last, FALSE, FALSE, NoEdit, 0,
                   rev.suspended)

\* Edit, lines 978-980
ReviewEdit(ed) ==
    /\ apc = "review"
    /\ \E r \in {edit(Anki, rev.at, ed)} :
          ReviewStep("edit", "e", r.A, r.st, rev.at, rev.last, FALSE, FALSE, ed,
                     r.added, rev.suspended)

\* Delete, lines 982-985, and MyNote.delete, lines 435-437
ReviewDelete(yes) ==
    IF yes
    THEN ReviewStep("delete", "d", delete_notes(Anki, rev.at), "ok", rev.at, rev.last - 1,
                    TRUE, TRUE, NoEdit, 0, FALSE)
    ELSE ReviewStep("delete", "d", Anki, "ok", rev.at + 1, rev.last, TRUE, FALSE, NoEdit, 0, FALSE)

\* Toggle markdown, lines 987-989; f is the field chosen at line 465
ReviewToggleMarkdown(f) ==
    /\ apc = "review"
    /\ f \in 1..Len(col[rev.at].fields)
    /\ \E r \in {toggle_markdown(Some(col[rev.at].fields[f]))} :
           ReviewStep("toggle_markdown", "m",
                      IF r.ok THEN [Anki EXCEPT !.col[rev.at].fields[f] = r.v,
                                                !.modified = TRUE]
                      ELSE Anki,
                      IF r.ok THEN "ok" ELSE "crash",
                      rev.at, rev.last, FALSE, FALSE, NoEdit, 0, rev.suspended)

\* Toggle marked, lines 991-993
ReviewToggleMarked ==
    ReviewStep("toggle_marked", "*", toggle_marked(Anki, rev.at), "ok", rev.at, rev.last,
               FALSE, FALSE, NoEdit, 0, rev.suspended)

\* Toggle suspend, lines 995-997, and MyNote.toggle_suspend, lines 449-459
ReviewToggleSuspend ==
    ReviewStep("toggle_suspend", "z", [Anki EXCEPT !.modified = TRUE], "ok", rev.at, rev.last,
               FALSE, FALSE, NoEdit, 0, ~rev.suspended)

\* Add new, lines 999-1011
ReviewAddNew(ed) ==
    /\ apc = "review"
    /\ \E r \in {add_notes_with_editor(Anki, ed)} :
          ReviewStep("add_new", "a", r.A, r.st, rev.at, rev.last, FALSE, FALSE, ed,
                     r.n, rev.suspended)

\* Save and stop, lines 1013-1015: _review_note returns False, on which
\* review leaves its loop (lines 929-930); add does not look at the value
\* (lines 872-873) and goes on with the next note
ReviewSaveAndStop ==
    IF rev.flow = "review"
    THEN ReviewStep("save_and_stop", "s", Anki, "stop", rev.at, rev.last, FALSE, FALSE,
                    NoEdit, 0, rev.suspended)
    ELSE ReviewStep("save_and_stop", "s", Anki, "ok", rev.at + 1, rev.last, FALSE, FALSE,
                    NoEdit, 0, FALSE)

\* an abort that leaves modified as it is
ReviewAbort_KeepsModified(yes) ==
    IF modified /\ ~yes
    THEN ReviewStep("abort", "x", Anki, "ok", rev.at, rev.last, TRUE, FALSE, NoEdit, 0, rev.suspended)
    ELSE ReviewStep("abort", "x", Anki, "abort", rev.at, rev.last, modified, modified, NoEdit, 0,
                    rev.suspended)

\* Abort, lines 1017-1024; yes is the answer to the question of line 1019
ReviewAbort(yes) ==
    IF modified /\ ~yes
    THEN ReviewStep("abort", "x", Anki, "ok", rev.at, rev.last, TRUE, FALSE, NoEdit, 0, rev.suspended)
    ELSE ReviewStep("abort", "x", [Anki EXCEPT !.modified = FALSE], "abort", rev.at, rev.last,
                    modified, modified, NoEdit, 0, rev.suspended)

\* the command list, lines 1029-1033: every note found is printed
ListNotes ==
    /\ apc = "list"
    /\ apc' = "returned"
    /\ rev' = [rev EXCEPT !.n = rev.n + 1, !.op = "list", !.ops = rev.ops \cup {"list"}]
    /\ UNCHANGED <<parsed, idx, current, col, col0, modified, result, warned, closed,
                   parsevars, convvars>>

----------------------------------------------------------------------------
(* Specifications *)

\* parsing a file and assembling its notes
Init == ParseInit /\ ConvIdle /\ AddIdle

Next ==
    \/ \E l \in Lines, nl \in BOOLEAN : ReadLine(l, nl)
    \/ EndOfFile
    \/ \E by \in {"convert", "cli"} : Assemble(by)

Spec == Init /\ [][Next]_vars

\* rendering a text, or loading a field value, and reading it back
InitConvert == ParseIdle /\ ConvInit /\ AddIdle

NextConvert ==
    \/ \E f \in Fragments : AddFragment(f)
    \/ Render
    \/ \E f \in Foreign : LoadForeign(f)
    \/ ApplyIsGenerated
    \/ ApplyHtmlToMarkdown
    \/ \E parseable \in BOOLEAN : ApplyHtmlToScreen(parseable)
    \/ \E parseable \in BOOLEAN : ApplyCliHtmlToScreen(parseable)
    \/ ApplyGetField
    \/ ApplyToggleMarkdown

SpecConvert == InitConvert /\ [][NextConvert]_vars

\* one call of add_notes_from_list and the end of the session
InitAdd == ParseIdle /\ ConvIdle /\ AddInit

NextAdd ==
    \/ AddNext
    \/ AddReturn
    \/ Exit

SpecAdd == InitAdd /\ [][NextAdd]_vars

\* _parse_file and the assemblers on a given file
InitFile == FileInit /\ ConvIdle /\ AddIdle

NextFile ==
    \/ ReadFile
    \/ EndFile
    \/ \E by \in {"convert", "cli"} : Assemble(by)

SpecFile == InitFile /\ [][NextFile]_vars

\* MyNote.edit: the note's text is written out and parsed again
InitTemplate == TemplateInit /\ AddIdle

NextTemplate ==
    \/ ReadFile
    \/ EndFile
    \/ Assemble("cli")

SpecTemplate == InitTemplate /\ [][NextTemplate]_vars

\* _parse_file and the assemblers on files that set the markdown flag
NextFlags ==
    \/ \E l \in FlagLines, nl \in BOOLEAN : ReadLine(l, nl)
    \/ EndOfFile
    \/ \E by \in {"convert", "cli"} : Assemble(by)

SpecFlags == Init /\ [][NextFlags]_vars


\* a session of the command review, or of the command list
InitReview == ParseIdle /\ ConvIdle /\ ReviewInit

NextReview ==
    \/ ReviewContinue
    \/ ReviewOtherKey
    \/ \E ed \in EditedFiles : ReviewEdit(ed)
    \/ \E yes \in BOOLEAN : ReviewDelete(yes)
    \/ \E f \in 1..2 : ReviewToggleMarkdown(f)
    \/ ReviewToggleMarked
    \/ ReviewToggleSuspend
    \/ \E ed \in EditedFiles : ReviewAddNew(ed)
    \/ ReviewSaveAndStop
    \/ \E yes \in BOOLEAN : ReviewAbort(yes)
    \/ ListNotes
    \/ \E ed \in EditedFiles, yes \in BOOLEAN : AddCommand(ed, yes)
    \/ Exit

SpecReview == InitReview /\ [][NextReview]_vars
----------------------------------------------------------------------------
(* Properties of _parse_file and the assemblers, checked under Spec *)

\* C2: a file in which one level-1 block holds two level-2 headings with the
\* same title is never parsed to a result: _parse_file does not return.
C2_DuplicateFieldRejected == dupseen => pc \notin {"returned", "assembled"}

\* the names a tags value holds when commas and whitespace both separate
IsSeparator(c) == IsSpace(c) \/ c = ","
RECURSIVE SeparatedNames(_)
SeparatedNames(s) ==
    LET NotSep(c) == ~IsSeparator(c)
        t == Drop(s, PrefixLen(s, IsSeparator, 1))
        n == PrefixLen(t, NotSep, 1)
    IN  IF t = <<>> THEN {} ELSE {SubSeq(t, 1, n)} \cup SeparatedNames(Drop(t, n))

\* the tags value that applies to block i of the parsed file
HasTags(i) == k_tags \in Keys(notes[i]) \/ k_tags \in Keys(defaults)
RawTags(i) ==
    IF k_tags \in Keys(notes[i]) THEN notes[i][k_tags].s ELSE defaults[k_tags].s

\* C3: the tags attached to an assembled note are exactly the names that
\* commas and/or whitespace separate in the tags value that applies to it
\* (its own, else the file defaults'), and a note without a model of its own
\* has the defaults' model.
C3_TagsAreTheSeparatedNames ==
    pc = "assembled" =>
        \A i \in 1..Len(notes) :
            /\ HasTags(i) =>
                   Range(AttachedTags(<<>>, assembled.notes[i][k_tags].s))
                       = SeparatedNames(RawTags(i))
            /\ (k_model \notin Keys(notes[i]) /\ k_model \in Keys(defaults)) =>
                   assembled.notes[i][k_model] = defaults[k_model]

\* C4: when _parse_file returns, every level-1 heading read outside a fenced
\* block has its note in the returned sequence.
C4_NoSilentDrop == pc = "returned" => Len(notes) = h1seen

\* the text of the field named by the variable field, in dict n
OpenFieldText(n, f) == GetField(n, f.s)

\* what a step that reads a line may change when the line is inside a fenced
\* block or opens one
C10_Frame ==
    /\ pc' = "reading"
    /\ notes' = notes
    /\ defaults' = defaults
    /\ field' = field
    /\ Keys(note') = Keys(note)
    /\ \A k \in Keys(note) \ {k_fields} : note'[k] = note[k]
    /\ k_fields \in Keys(note) =>
          /\ Len(note'[k_fields].d) = Len(note[k_fields].d)
          /\ \A i \in 1..Len(note[k_fields].d) :
                /\ note'[k_fields].d[i].k = note[k_fields].d[i].k
                /\ note'[k_fields].d[i].v =
                      IF Truthy(field) /\ note[k_fields].d[i].k = field.s
                      THEN note[k_fields].d[i].v \o line'
                      ELSE note[k_fields].d[i].v
    /\ codeblock' = IF codeblock THEN kind'.kind # "fence" ELSE TRUE

C10_WitnessClose ==
    /\ pc = "reading"
    /\ ~codeblock
    /\ kind.infence
    /\ kind.kind = "fence"
    /\ Truthy(field)

\* C13: for every sequence of input lines _parse_file ends either by
\* returning (defaults, notes) or by the structural abort; it fails in no
\* other way, also not at a level-2 heading read before any level-1 heading.
C13_ReturnsOrAborts == pc # "crashed"

\* the value of key k that applies to block i: its own, else the defaults',
\* else the value dflt
C15_Resolved(i, k, dflt) ==
    IF k \in Keys(notes[i]) THEN notes[i][k]
    ELSE IF k \in Keys(defaults) THEN defaults[k]
    ELSE dflt

\* C15: for every parsed note, in both assemblers, the resolved model is the
\* note's own model if present, else the defaults' model, else 'Basic'; the
\* resolved tags are the note's own tags if present, else the defaults'
\* tags, else the empty string.
C15_ModelAndTagsResolution ==
    pc = "assembled" =>
        \A i \in 1..Len(notes) :
            /\ assembled.notes[i][k_model] = C15_Resolved(i, k_model, StrV(s_Basic))
            /\ assembled.notes[i][k_tags] = C15_Resolved(i, k_tags, StrV(<<>>))

\* the flag a dict of properties sets: its markdown value, else its md value,
\* is exactly 'true' or 'yes'
C16_SetsFlag(d) == k_markdown \in Keys(d) \/ k_md \in Keys(d)
C16_FlagOf(d) ==
    (IF k_markdown \in Keys(d) THEN d[k_markdown].s ELSE d[k_md].s)
        \in { <<"t","r","u","e">>, <<"y","e","s">> }

\* C16: for every parsed note the resolved markdown flag is a boolean: the
\* note's own markdown value, or else its md value, is exactly 'true' or
\* 'yes', if the note has either key; otherwise the same test on the
\* defaults' value if the defaults have either key; otherwise true.
C16_MarkdownFlagResolution ==
    pc = "assembled" =>
        \A i \in 1..Len(notes) :
            assembled.notes[i][k_markdown] =
                BoolV(IF C16_SetsFlag(notes[i]) THEN C16_FlagOf(notes[i])
                      ELSE IF C16_SetsFlag(defaults) THEN C16_FlagOf(defaults)
                      ELSE TRUE)

\* a note took a false flag from defaults that set only md
C16_Witness ==
    /\ pc = "assembled"
    /\ k_md \in Keys(defaults) /\ k_markdown \notin Keys(defaults)
    /\ \E i \in 1..Len(notes) :
          ~C16_SetsFlag(notes[i]) /\ assembled.notes[i][k_markdown] = BoolV(FALSE)

\* a note set its own flag to a word that is not 'true' or 'yes', against
\* defaults that set it true
C16_WitnessOwn ==
    /\ pc = "assembled"
    /\ C16_SetsFlag(defaults) /\ C16_FlagOf(defaults)
    /\ \E i \in 1..Len(notes) :
          C16_SetsFlag(notes[i]) /\ assembled.notes[i][k_markdown] = BoolV(FALSE)

\* a step that reads a line of the form key: value outside a fenced block
C17_ReadsProperty ==
    /\ pc = "reading" /\ nread' = nread + 1
    /\ ~codeblock
    /\ kind'.kind = "prop"

\* the key and the value the line read holds: what stands before the first
\* colon, in lower case and with tag for tags, and what stands after the
\* colon's space, trimmed
C17_Key ==
    LET k == str_lower(SubSeq(line', 1, Find(line', <<":", " ">>, 1) - 1))
    IN  IF k = <<"t","a","g">> THEN <<"t","a","g","s">> ELSE k
C17_Value == str_strip(Drop(line', Find(line', <<":", " ">>, 1) + 1))

\* a level-2 heading with a title has been read in the current block
C17_FieldOpened == \E t \in kind.titles : t # <<>>

\* C17: property lines are recognised only while no field is open: outside a
\* fence and before any level-2 heading of the block, a line key: value
\* stores the lower-cased key (tag as tags) and the trimmed value in the
\* current block's property map and touches nothing else; once a level-2
\* heading has opened a field in the block, every later key: value line is
\* appended to the field's text and the property map never changes again.
C17_PropertiesOnlyBeforeFields ==
    [][ C17_ReadsProperty =>
          /\ pc' = "reading"
          /\ notes' = notes /\ defaults' = defaults /\ field' = field
          /\ kind.titles = {} =>
                note' = [k \in Keys(note) \cup {C17_Key} |->
                           IF k = C17_Key THEN StrV(C17_Value) ELSE note[k]]
          /\ C17_FieldOpened =>
                /\ Keys(note') = Keys(note)
                /\ \A k \in Keys(note) \ {k_fields} : note'[k] = note[k]
                /\ Truthy(field)
                /\ GetField(note', field.s) = GetField(note, field.s) \o line'
      ]_vars


\* C18: every key: value line read outside a fence before the first level-1
\* heading is in the defaults the parser returns, under its key and with the
\* value of the last such line, also when the file has no level-1 heading.
C18_LeadingDefaults ==
    pc = "returned" =>
        \A k \in DOMAIN kind.leading :
            /\ k \in Keys(defaults)
            /\ defaults[k] = StrV(kind.leading[k])

\* the last level-1 block of the file has at least one level-2 heading
C19_LastBlockHasFields == h1seen >= 1 /\ kind.titles # {}

\* C19: a level-1 block with at least one level-2 heading is in the returned
\* notes, also when its last level-2 heading has an empty title: when the
\* parser returns and the file's last block has level-2 headings, the last
\* returned note is that block, with the titles of these headings as fields.
C19_BlockFinalisation ==
    (pc = "returned" /\ C19_LastBlockHasFields) =>
        /\ Len(notes) >= 1
        /\ HasFieldsDict(notes[Len(notes)])
        /\ ItemKeys(notes[Len(notes)][k_fields].d) = kind.titles

\* a text that neither starts nor ends with whitespace
C20_Trimmed(s) == s = <<>> \/ (~IsSpace(s[1]) /\ ~IsSpace(s[Len(s)]))

\* C20: in every note the parser returns, every field's text has no leading
\* and no trailing whitespace, whatever closed the field: the next level-2
\* heading, the next level-1 heading, the end of the file, or the end of the
\* file inside a fenced block that was never closed.
C20_TrimInvariant ==
    pc = "returned" =>
        \A i \in 1..Len(notes) :
            /\ HasFieldsDict(notes[i])
            /\ \A j \in 1..Len(notes[i][k_fields].d) :
                   C20_Trimmed(notes[i][k_fields].d[j].v)

\* the file ended inside an open fence, after a line with its newline, and
\* the field that was open is returned with text
C20_Witness ==
    /\ pc = "returned" /\ codeblock /\ ~eof
    /\ Truthy(field)
    /\ Len(notes) >= 1
    /\ GetField(notes[Len(notes)], field.s) # <<>>

\* a returned note's first field, closed by a level-2 heading, holds text
C20_WitnessLevelTwo ==
    /\ pc = "returned"
    /\ \E i \in 1..Len(notes) :
          Len(notes[i][k_fields].d) = 2 /\ notes[i][k_fields].d[1].v # <<>>

\* two notes are returned and the first, closed by a level-1 heading, holds
\* text in its last field
C20_WitnessLevelOne ==
    /\ pc = "returned" /\ Len(notes) = 2
    /\ notes[1][k_fields].d # <<>>
    /\ notes[1][k_fields].d[Len(notes[1][k_fields].d)].v # <<>>

\* a step that reads, outside a fenced block, a line of three or more '#'
C21_ReadsDeepHeading ==
    /\ pc = "reading" /\ nread' = nread + 1
    /\ ~codeblock
    /\ kind'.kind = "h3"

\* C21: outside a fence a line beginning with three or more '#' leaves the
\* whole parser state unchanged: it is not appended to the open field, opens
\* no note and no field, changes no property map, and the parser reads on.
C21_DeepHeadingDropped ==
    [][ C21_ReadsDeepHeading =>
          /\ pc' = "reading"
          /\ defaults' = defaults /\ notes' = notes /\ note' = note
          /\ codeblock' = codeblock /\ field' = field
      ]_vars

\* a heading of level 3 was just read outside a fence while a field with
\* text was open
C21_Witness ==
    /\ pc = "reading"
    /\ kind.kind = "h3" /\ ~kind.infence
    /\ Truthy(field)
    /\ HasFieldsDict(note)
    /\ GetField(note, field.s) # <<>>

\* C22: the parser aborts only on a duplicate: a step that aborts reads,
\* outside a fence, a level-2 heading whose title an earlier level-2 heading
\* of the block already bears; a level-2 heading with a title new among the
\* block's fields never aborts.
C22_AbortOnlyOnDuplicate ==
    [][ (pc = "reading" /\ pc' = "aborted") =>
          /\ ~codeblock
          /\ kind'.kind = "h2"
          /\ kind'.title \in kind.titles
      ]_vars
----------------------------------------------------------------------------
(* Properties of the converters, checked under SpecConvert *)

Rendered == cpc \in {"stored", "applied"} /\ origin = "rendered"

\* C1: round-trip law: for every text that is not matched by the plain fast
\* path, html_to_markdown(markdown_to_html(text)) equals the text exactly.
C1_RoundTrip ==
    (Rendered /\ ~IsPlainText(text) /\ out.op = "html_to_markdown")
        => out.r = Ok(text)

\* the characters the plain class is said to hold
C7_PlainClass ==
    Range(Lower) \cup Range(Upper) \cup Range(Digit)
        \cup {"U+00E6", "U+00F8", "U+00E5", "U+00C6", "U+00D8", "U+00C5"}
        \cup {" ", ",", ".", "?", "+", "-"}

C7_TextIsPlain == \A i \in 1..Len(text) : text[i] \in C7_PlainClass

\* C7: plain fast-path law: for every text made only of characters of the
\* plain class, markdown_to_html returns the text unchanged and
\* is_generated_html of it is false.
C7_PlainFastPath ==
    (Rendered /\ C7_TextIsPlain)
        => /\ html = Some(text)
           /\ out.op = "is_generated_html" => out.r = Ok(FALSE)

\* a plain text with punctuation has been rendered and tested
C7_Witness ==
    /\ Rendered /\ C7_TextIsPlain
    /\ \E i \in 1..Len(text) : text[i] \in {" ", ",", ".", "?", "+", "-"}
    /\ out.op = "is_generated_html"

\* C8: detection of generated HTML: for every text that does not take the
\* plain fast path, is_generated_html(markdown_to_html(text)) is true, whether
\* or not the Markdown engine produced a top-level element and whether or not
\* the rendered body is empty.
C8_GeneratedIsDetected ==
    (Rendered /\ ~IsPlainText(text) /\ out.op = "is_generated_html")
        => out.r = Ok(TRUE)

\* the engine's output for the text has no element, and for another text the
\* case of an empty output is covered by C8_WitnessEmpty
C8_Witness ==
    /\ Rendered /\ ~IsPlainText(text) /\ out.op = "is_generated_html"
    /\ markdown_markdown(Prepared(text)) # <<>>
    /\ ~get_first_tag(markdown_markdown(Prepared(text))).found

C8_WitnessEmpty ==
    /\ Rendered /\ ~IsPlainText(text) /\ out.op = "is_generated_html"
    /\ markdown_markdown(Prepared(text)) = <<>>

Loaded == cpc = "applied" /\ origin = "foreign"

\* the part of C9 that holds: is_generated_html(h) is true if and only if the
\* first top-level element of h carries the marker, and is false for None;
\* for every str h that is not generated once its style block is removed,
\* html_to_screen(h) returns a text and does not raise.
C9_ForeignHtml ==
    Loaded =>
        /\ out.op = "is_generated_html" => out.r = Ok(marked)
        /\ (/\ out.op = "html_to_screen"
            /\ html.some
            /\ ~is_generated_html(Some(RemoveStyle(html.s))))
                => out.r.ok

\* C9: is_generated_html(h) is true if and only if the first top-level
\* element of h carries the marker, and is false for None, for text with no
\* element and for a marker on a later element; for every such unmarked h,
\* html_to_screen(h) returns a text and does not raise.
C9_AsStated ==
    Loaded =>
        /\ out.op = "is_generated_html" => out.r = Ok(marked)
        /\ (out.op = "html_to_screen" /\ ~marked) => out.r.ok

\* an unmarked value that carries the marker on a later element has been
\* shown on the screen
C9_Witness ==
    /\ Loaded /\ ~marked /\ html.some
    /\ Find(html.s, marker, 1) # 0
    /\ ~is_generated_html(Some(RemoveStyle(html.s)))
    /\ out.op = "html_to_screen" /\ out.r.ok

\* the stored value is not generated HTML: a loaded value whose first
\* top-level element its author left unmarked, or any value for which
\* is_generated_html is false
C12_NotGenerated ==
    IF origin = "foreign" THEN ~marked ELSE ~is_generated_html(html)

\* C12: html_to_markdown applied to HTML for which is_generated_html is false
\* (no top-level element, or a first element without the marker) ends in an
\* error and never returns a text.
C12_ExtractionNeedsMarker ==
    (cpc = "applied" /\ out.op = "html_to_markdown" /\ C12_NotGenerated)
        => ~out.r.ok

\* a value whose first element lacks the marker was handed to html_to_markdown
C12_Witness ==
    /\ cpc = "applied" /\ out.op = "html_to_markdown"
    /\ origin = "foreign" /\ ~marked /\ html.some
    /\ get_first_tag(html.s).found
    /\ out.r.err = "KeyError"

\* a text without any element was handed to html_to_markdown
C12_WitnessNoElement ==
    /\ cpc = "applied" /\ out.op = "html_to_markdown"
    /\ html.some /\ html.s # <<>> /\ ~get_first_tag(html.s).found
    /\ out.r.err = "TypeError"


\* the escaped math delimiters
C23_Delimiters == { <<"\\", "[">>, <<"\\", "]">>, <<"\\", "(">>, <<"\\", ")">> }

\* C23: html_to_screen, in convert.py and in cli.py, removes the backslash
\* of the math delimiters only for a provenance-marked value: for a value
\* that is not marked, each escaped delimiter of the value is still in the
\* text returned.
C23_DelimitersKept ==
    (/\ cpc = "applied"
     /\ out.op \in {"html_to_screen", "cli.html_to_screen"}
     /\ out.r.ok
     /\ ~is_generated_html(html)) =>
        \A d \in C23_Delimiters :
            Find(html.s, d, 1) > 0 => Find(out.r.v, d, 1) > 0

\* the number of start tags of h, from position i on, that carry the marker
RECURSIVE C24_MarkedTags(_, _)
C24_MarkedTags(h, i) ==
    LET tg == FirstTagFrom(h, i)
    IN  IF ~tg.found THEN 0
        ELSE (IF marker \in ItemKeys(TagAttrs(h, tg)) THEN 1 ELSE 0)
             + C24_MarkedTags(h, tg.stop + 1)

\* C24: for every text that is not plain, exactly one element of
\* markdown_to_html(text) carries data-original-markdown and it is the first
\* top-level element; a rendering without element is wrapped in one <div>,
\* also when the text itself holds raw HTML elements with that attribute.
C24_MarkerPlacement ==
    (cpc \in {"stored", "applied"} /\ origin = "rendered" /\ ~IsPlainText(text)) =>
        /\ is_generated_html(html)
        /\ C24_MarkedTags(html.s, 1) = 1
        /\ ~get_first_tag(markdown_markdown(Prepared(text))).found =>
               StartsWith(html.s, <<"<","d","i","v"," ">>)

\* the operations that read a field value
C25_Readers == {"html_to_screen", "cli.html_to_screen", "get_field", "toggle_markdown"}

\* C25: the operations that read fields invoke html_to_markdown only on a
\* value for which is_generated_html has just answered true: every value a
\* reader handed to html_to_markdown is generated HTML, and no reader raises
\* the KeyError of an extraction from a value without marker.
C25_GuardedExtraction ==
    (cpc = "applied" /\ out.op \in C25_Readers) =>
        /\ \A i \in 1..Len(out.calls) : is_generated_html(Some(out.calls[i]))
        /\ out.r.err # "KeyError"

\* a reader has extracted the text of a generated value
C25_Witness ==
    /\ cpc = "applied" /\ out.op \in C25_Readers
    /\ out.calls # <<>>
    /\ out.r.ok

\* a reader was applied to a value that has a tag but not the marker, and
\* has extracted nothing
C25_WitnessNoCall ==
    /\ cpc = "applied" /\ out.op \in C25_Readers
    /\ html.some /\ get_first_tag(html.s).found
    /\ out.calls = <<>>

\* C30: toggle_markdown applied twice in succession to the same field leaves
\* the stored value as it was before the first call, for Markdown text and
\* for generated HTML alike.
C30_ToggleInvolution ==
    (cpc = "applied" /\ out.op = "toggle_markdown" /\ out.n = 2 /\ out.r.ok) =>
        html = out.v0
----------------------------------------------------------------------------
(* Properties of add_notes_from_list, checked under SpecAdd *)

\* the note the next iteration is about, when its model is recognised
C5_NextNote == parsed[idx + 1]
C5_ModelFields == ModelNamed(C5_NextNote[k_model].s).flds
C5_Resolved ==
    /\ apc = "adding" /\ idx < Len(parsed)
    /\ C5_NextNote[k_model].s \in model_names
C5_CountDiffers == Len(C5_NextNote[k_fields].d) # Len(C5_ModelFields)
C5_NamesDiffer ==
    \E i \in 1..Len(C5_ModelFields) : C5_NextNote[k_fields].d[i].k # C5_ModelFields[i]
C5_CollectionRefuses ==
    \/ AllSpace(C5_NextNote[k_fields].d[1].v)
    \/ \E i \in 1..Len(col) :
          /\ col[i].model = C5_NextNote[k_model].s
          /\ col[i].fields[1] = IF C5_NextNote[k_markdown].b
                                THEN cli_markdown_to_html(C5_NextNote[k_fields].d[1].v)
                                ELSE C5_NextNote[k_fields].d[1].v

\* what an iteration does with a note whose model is recognised
C5_Step ==
    C5_Resolved =>
        IF C5_CountDiffers
        THEN apc' = "aborted" /\ col' = col
        ELSE /\ apc' = "adding"
             /\ Len(result') = Len(result) + 1
             /\ C5_NamesDiffer => (idx + 1) \in warned'
             /\ Len(col') = IF C5_CollectionRefuses THEN Len(col) ELSE Len(col) + 1

\* C5: field-count validation: a parsed note whose number of fields differs
\* from that of its resolved model causes an abort and is not added; a note
\* with the right number of fields but positionally different names only
\* produces a warning, the call goes on, and the note is added to the
\* collection unless the collection refuses it as a duplicate or as empty.
C5_FieldCountValidation == [][AddNext => C5_Step]_vars

\* the same, with the note of the right number of fields added in every case
C5_StepAsStated ==
    C5_Resolved =>
        IF C5_CountDiffers
        THEN apc' = "aborted" /\ col' = col
        ELSE /\ apc' = "adding"
             /\ C5_NamesDiffer => (idx + 1) \in warned'
             /\ Len(col') = Len(col) + 1

\* C5 as stated: a note whose number of fields differs causes an abort and
\* is not added; a note with the right number of fields but different names
\* only produces a warning and is still added to the collection.
C5_AsStated == [][AddNext => C5_StepAsStated]_vars

\* a note was added with a warning, and a later one aborted the call for its
\* number of fields
C5_Witness ==
    /\ apc = "aborted"
    /\ \E i \in warned : i < idx /\ Len(col) > Len(col0)
    /\ parsed[idx][k_model].s \in model_names
    /\ Len(parsed[idx][k_fields].d) # Len(ModelNamed(parsed[idx][k_model].s).flds)

\* C6: all-or-nothing on error: if add_notes_from_list aborts at the k-th
\* note, none of the notes before it has been added to the collection by
\* that call.
C6_AllOrNothing == apc = "aborted" => col = col0


\* an iteration that reaches _add_note: the model is recognised and the
\* number of fields is that of the model
C29_ReachesAddNote == AddNext /\ C5_Resolved /\ ~C5_CountDiffers

\* C29: a note the collection reports as duplicate or empty is not added
\* and leaves modified unchanged, yet an entry for it is returned; any other
\* note that reaches _add_note is added and sets modified; so the list a
\* call returns has exactly one entry per parsed note, and the notes added
\* are those that were not refused.
C29_DuplicatesNotStored ==
    /\ [](apc = "returned" => Len(result) = Len(parsed))
    /\ [][ C29_ReachesAddNote =>
             /\ Len(result') = Len(result) + 1
             /\ IF C5_CollectionRefuses
                THEN col' = col /\ modified' = modified
                ELSE Len(col') = Len(col) + 1 /\ SubSeq(col', 1, Len(col)) = col /\ modified'
         ]_vars

\* a call has returned after adding a note and refusing another while
\* modified was still False
C29_Witness ==
    /\ apc = "returned"
    /\ Len(parsed) >= 2
    /\ Len(col) = Len(col0) + 1
    /\ ~dupeOrEmpty([current |-> current, col |-> col0, modified |-> FALSE],
                    NewNote([current |-> parsed[Len(parsed)][k_model].s, col |-> col0,
                             modified |-> FALSE],
                            FieldValues(parsed[Len(parsed)]), <<>>,
                            parsed[Len(parsed)][k_markdown].b))
    /\ dupeOrEmpty([current |-> current, col |-> col0, modified |-> FALSE],
                    NewNote([current |-> parsed[1][k_model].s, col |-> col0,
                             modified |-> FALSE],
                            FieldValues(parsed[1]), <<>>, parsed[1][k_markdown].b))
----------------------------------------------------------------------------
(* Properties of the parser on whole files, checked under SpecFile *)

\* the input of the scenario has been parsed and assembled
C11_ScenarioAssembled ==
    /\ file \in {ExampleNote1, WithoutFinalNewline(ExampleNote1)}
    /\ pc = "assembled"

\* C11: the input 'model: Basic', 'tags: marked', a blank line, '# Note 1',
\* '## Front', 'Question?', a blank line, '## Back', 'Answer.' is parsed and
\* assembled, by either assembler, into exactly one note with model Basic,
\* tags {marked}, markdown true and the fields Front = 'Question?' and
\* Back = 'Answer.' in that order.
C11_Scenario ==
    C11_ScenarioAssembled =>
        /\ Len(assembled.notes) = 1
        /\ assembled.notes[1][k_model] = StrV(<<"B","a","s","i","c">>)
        /\ Range(str_split(assembled.notes[1][k_tags].s)) = {<<"m","a","r","k","e","d">>}
        /\ assembled.notes[1][k_markdown] = BoolV(TRUE)
        /\ assembled.notes[1][k_fields].d
              = <<[k |-> <<"F","r","o","n","t">>, v |-> <<"Q","u","e","s","t","i","o","n","?">>],
                  [k |-> <<"B","a","c","k">>, v |-> <<"A","n","s","w","e","r",".">>]>>

\* the scenario's input, as written, went through the assembler of cli.py
C11_Witness ==
    /\ C11_ScenarioAssembled
    /\ file = ExampleNote1
    /\ nread = 9
    /\ assembled.by = "cli"

\* C14: parseable text re-parses unchanged: when x = html_to_screen(v,
\* parseable=True) is written under a level-2 heading of a note, as
\* MyNote.__repr__ does, and the text is parsed by _parse_file, the result is
\* exactly one note whose corresponding field text equals x, also when x has
\* lines that begin with '#' or lines of the form 'key: value'.
C14_ReparsesUnchanged ==
    (pc \in {"returned", "assembled"} /\ out.op = "html_to_screen")
        => /\ Len(notes) = 1
           /\ Len(notes[1][k_fields].d) = 2
           /\ notes[1][k_fields].d[1].v = out.r.v

----------------------------------------------------------------------------
(* Properties of the sessions, checked under SpecReview *)

\* a step of _review_note in which action op was chosen
C26_Chose(op) == apc = "review" /\ rev'.n = rev.n + 1 /\ rev'.op = op

\* C26: when Abort is chosen while modified is True the user is asked, and
\* the abort is raised only on a yes, after modified was set to False, so
\* that __exit__ does not close the collection; on a no nothing is raised,
\* the same note is shown again and modified is still True.  When modified
\* is False the abort is raised without a question.
C26_AbortDiscardsChanges ==
    /\ [][ C26_Chose("abort") =>
             IF modified
             THEN /\ rev'.asked
                  /\ rev'.answer => (apc' = "aborted" /\ ~modified')
                  /\ ~rev'.answer => (/\ apc' = "review" /\ modified'
                                      /\ rev'.at = rev.at /\ col' = col)
             ELSE ~rev'.asked /\ apc' = "aborted" /\ ~modified'
         ]_vars
    /\ []((apc = "exited" /\ rev.op = "abort") => ~closed)

\* the session was aborted after changes, on a yes, and has left its with
\* block
C26_Witness ==
    /\ apc = "exited" /\ rev.op = "abort"
    /\ rev.asked /\ rev.answer
    /\ col # col0

\* Abort was chosen after changes and the user said no
C26_WitnessDeclined ==
    /\ apc = "review" /\ rev.op = "abort"
    /\ rev.asked /\ ~rev.answer
    /\ modified

\* the actions that may turn modified to True
C27_Writers == {"delete", "add", "add_new", "edit", "toggle_marked", "toggle_suspend",
                "toggle_markdown"}

\* C27: modified is False after construction and turns True only in
\* delete_notes, in _add_note for a note that is added, in MyNote.edit after
\* the fields were written, and in the three toggles; __exit__ closes the
\* collection if and only if modified is True at exit, so a session that
\* only lists or prints never closes it.
C27_ModifiedFlag ==
    /\ ~modified
    /\ [][ (~modified /\ modified') =>
             /\ rev'.op \in C27_Writers
             /\ rev'.op = "delete" => Len(col') = Len(col) - 1
             /\ rev'.op \in {"add", "add_new"} => Len(col') > Len(col)
             /\ rev'.op = "edit" =>
                  \/ Len(col') > Len(col)
                  \/ /\ rev'.ed.retcode = 0 /\ rev'.ed.notes # <<>>
                     /\ \A j \in 1..Len(FieldValues(rev'.ed.notes[1])) :
                           col'[rev.at].fields[j] =
                               IF rev'.ed.notes[1][k_markdown].b
                               THEN cli_markdown_to_html(FieldValues(rev'.ed.notes[1])[j])
                               ELSE FieldValues(rev'.ed.notes[1])[j]
         ]_vars
    /\ [][ (apc # "exited" /\ apc' = "exited") => (closed' <=> modified) ]_vars
    /\ []((apc = "exited" /\ rev.ops \subseteq {"list", "print", "continue"}) => ~closed)

\* a session that changed the collection has closed it
C27_Witness ==
    /\ apc = "exited" /\ closed
    /\ rev.ops \cap C27_Writers # {}

\* a session that only listed or printed has left without closing
C27_WitnessReadOnly ==
    /\ apc = "exited" /\ ~closed
    /\ rev.ops # {} /\ rev.ops \subseteq {"list", "print"}

\* C28: when the editor returns a non-zero exit code, add_notes_with_editor
\* returns an empty list and adds no note, and MyNote.edit changes neither
\* the note nor the collection nor modified; MyNote.edit changes nothing
\* either when the edited file holds no note.
C28_EditorFailure ==
    [][ (C26_Chose("edit") \/ C26_Chose("add_new")) =>
          /\ rev'.ed.retcode # 0 =>
                /\ col' = col /\ modified' = modified /\ current' = current
                /\ rev'.added = 0
                /\ apc' = "review"
          /\ (rev'.op = "edit" /\ rev'.ed.notes = <<>>) =>
                /\ col' = col /\ modified' = modified
                /\ apc' = "review"
      ]_vars

\* the editor failed on a file that holds notes, in an edit or in an add
C28_Witness ==
    /\ apc = "review"
    /\ rev.op \in {"edit", "add_new"}
    /\ rev.ed.retcode # 0 /\ rev.ed.notes # <<>>
    /\ col = col0 /\ ~modified

\* the editor succeeded in an edit and left a file without notes
C28_WitnessNoNotes ==
    /\ apc = "review"
    /\ rev.op = "edit"
    /\ rev.ed.retcode = 0 /\ rev.ed.notes = <<>>

\* the notes still to be presented, the one shown first
C31_Pending == IF apc = "review" THEN SubSeq(col, rev.at, rev.last) ELSE <<>>

\* the actions after which _review_note goes round its loop again
C31_Repeating == {"edit", "toggle_markdown", "toggle_marked", "toggle_suspend", "add_new"}

\* the parts of C31 on Continue, Delete, Save and stop and unbound keys: the
\* notes found are presented from the first on, Continue and Delete leave
\* the notes after the one shown to be presented, Save and stop ends a
\* review, a session that has ended presents nothing more, and a key that is
\* bound to no action, as x is where Abort is removed, changes nothing and
\* shows the same note again
C31_Moves ==
    /\ (apc = "review") => C31_Pending = col
    /\ [][ (C26_Chose("continue") \/ C26_Chose("delete")) =>
             /\ C31_Pending' = Tail(C31_Pending)
             /\ apc' = IF Tail(C31_Pending) = <<>> THEN "returned" ELSE "review"
             /\ (rev'.op = "continue" \/ ~rev'.answer) => col' = col
         ]_vars
    /\ [][ (C26_Chose("save_and_stop") /\ rev.flow = "review") =>
             (apc' = "returned" /\ col' = col /\ modified' = modified)
         ]_vars
    /\ [][ (apc \in {"returned", "aborted", "crashed", "exited"}) => apc' # "review" ]_vars
    /\ [][ (apc = "review" /\ rev'.n = rev.n + 1 /\ rev'.key \notin DOMAIN actions) =>
             rev'.op = "print"
         ]_vars
    /\ [][ (apc = "review" /\ rev'.n = rev.n + 1 /\ rev'.key = "x" /\ rev.flow = "add") =>
             rev'.op = "print"
         ]_vars
    /\ [][ C26_Chose("print") =>
             /\ apc' = "review"
             /\ C31_Pending' = C31_Pending
             /\ col' = col /\ modified' = modified /\ current' = current
             /\ closed' = closed
         ]_vars

\* C31: the notes are presented in order and one at a time; Continue and
\* Delete move on to the next note; Edit, the three toggles and Add new
\* present the same note again; Save and stop ends the review; a key bound
\* to no action changes no state and raises no abort.
C31_ReviewOrdering ==
    /\ C31_Moves
    /\ [][ (\E op \in C31_Repeating : C26_Chose(op)) =>
             /\ apc' = "review"
             /\ rev'.at = rev.at
             /\ Len(C31_Pending') = Len(C31_Pending)
             /\ Tail(C31_Pending') = Tail(C31_Pending)
         ]_vars

\* Edit, the toggles and Add new present the same note again unless the
\* action itself raised, in which case the session is over
C31_OrderingUnlessRaised ==
    /\ C31_Moves
    /\ [][ (\E op \in C31_Repeating : C26_Chose(op)) =>
             \/ /\ apc' = "review"
                /\ rev'.at = rev.at
                /\ Len(C31_Pending') = Len(C31_Pending)
                /\ Tail(C31_Pending') = Tail(C31_Pending)
             \/ apc' \in {"aborted", "crashed"}
         ]_vars

\* an edit whose file holds a note with three fields has ended the review
C31_EditRaised ==
    /\ apc = "crashed" /\ rev.op = "edit"
    /\ rev.at <= rev.last

\* x was pressed in the review of the notes just added and the same note is
\* shown again
C31_WitnessUnbound ==
    /\ apc = "review" /\ rev.flow = "add"
    /\ rev.key = "x" /\ rev.op = "print"

\* a review was ended by Save and stop with notes left to present
C31_WitnessStopped ==
    /\ apc = "returned" /\ rev.flow = "review"
    /\ rev.op = "save_and_stop"
    /\ rev.at < rev.last
====
